---- MODULE Spec2Model ----
(***************************************************************************)
(* A model of the q-voter generator's core:                                *)
(*   - CompoundVar (pyhelpers/utils.py): construction and eval;            *)
(*   - DataManager (pyhelpers/dataoper.py): get_working_data,              *)
(*     get_plotting_data, update_file over the xml data storage file;      *)
(*   - SimulCollector (pyhelpers/simul.py): the chunked multiprocessing    *)
(*     run over the rows that are still missing in the storage file.       *)
(* Python indices are kept 0-based; a Python list l is a TLA+ sequence     *)
(* and l[i] is written At(l, i).                                           *)
(***************************************************************************)
EXTENDS Integers, Sequences, FiniteSets, TLC

VARIABLES
    \* ---- CompoundVar ----
    cvPc,          \* "new" | "built" | "raised" | "evaluated"
    cvArgs,        \* the arguments __init__ was called with
    cvParams,      \* self.params
    cvOperations,  \* self.operations
    cvOrder,       \* self.order
    cvWarnings,    \* number of logging.warning calls made by __init__
    cvData,        \* the row dictionary eval was called with
    cvResult,      \* what eval returned or raised
    \* ---- DataManager ----
    dmFile,        \* the xml data storage file
    dmBefore,      \* the file before the last call
    dmCall,        \* the last call: [op, arg, out]
    dmPrev,        \* the call before it, when the last call is a
                   \* get_working_data that repeats it or that asks for the
                   \* parameter columns of the chunk it wrote; NoCall otherwise
    \* ---- SimulCollector ----
    rnSpec,        \* what the application is given: [req, chunk_size], the
                   \* table parse_req returns and the chunk size
    rnFile,        \* the xml data storage file
    rnRun,         \* the number of the current invocation of the application
    rnPc,          \* the main process: "start" | "built" | "mapping" |
                   \* "done" | "raised"
    rnData,        \* self.data of the main process
    rnTasks,       \* the tasks of pool.map, one per chunk:
                   \* [chunk_indices, status], status "queued" | "taken" |
                   \* "saved" | "failed"
    rnWorkers,     \* the pool processes: [pc, task, pos, data, read], pc
                   \* "idle" | "running" | "writing"
    rnLog,         \* history of the storage file: [origins, reads, kept]
    \* ---- SpecManager ----
    smSpec,        \* self.spec: the plot specification read from the json
                   \* file, a list of [name, part] in the order of the file
    smCall         \* the last call: [op, arg, out]

dmVars == <<dmFile, dmBefore, dmCall, dmPrev>>

rnVars == <<rnSpec, rnFile, rnRun, rnPc, rnData, rnTasks, rnWorkers, rnLog>>

cvVars == <<cvPc, cvArgs, cvParams, cvOperations, cvOrder, cvWarnings, cvData, cvResult>>

smVars == <<smSpec, smCall>>

vars == <<cvVars, dmVars, rnVars, smVars>>

----------------------------------------------------------------------------
(* Generic helpers for Python lists.                                       *)

Range(f) == {f[x] : x \in DOMAIN f}

\* l[i] for a valid 0-based index i
At(l, i) == l[i + 1]

\* list(range(n))
PyRange(n) == [i \in 1..n |-> i - 1]

\* Python's index normalisation: a negative index counts from the end;
\* the result is -1 when the index is out of range (IndexError).
PyIndex(len, i) ==
    IF i >= 0 /\ i < len THEN i
    ELSE IF i < 0 /\ len + i >= 0 THEN len + i
    ELSE -1

\* l with l[i] replaced by v (i a valid 0-based index)
PySet(l, i, v) == [l EXCEPT ![i + 1] = v]

\* l after l.pop(i) (i a valid 0-based index)
PyPop(l, i) == [k \in 1..(Len(l) - 1) |-> IF k <= i THEN l[k] ELSE l[k + 1]]

\* sorted(l) == sorted(m) for lists of integers: equal as multisets
SameSorted(l, m) ==
    /\ Len(l) = Len(m)
    /\ \A v \in Range(l) \cup Range(m) :
          Cardinality({k \in DOMAIN l : l[k] = v}) = Cardinality({k \in DOMAIN m : m[k] = v})

\* all the sequences over S of the lengths lo..hi
SeqsOf(S, lo, hi) == UNION {[1..n -> S] : n \in lo..hi}

\* all the permutations of 0..n-1, as lists
PermsOf(n) == {p \in [1..n -> 0..(n - 1)] : \A i, j \in 1..n : p[i] = p[j] => i = j}

----------------------------------------------------------------------------
(* Numbers.  A Python number is modelled exactly, as a reduced fraction    *)
(* [n, d] with d > 0: the int 6 and the float 6.0 are both [n |-> 6,       *)
(* d |-> 1].                                                               *)

RECURSIVE Gcd(_, _)
Gcd(a, b) == IF b = 0 THEN a ELSE Gcd(b, a % b)

Abs(a) == IF a < 0 THEN -a ELSE a

Frac(n, d) ==
    LET g == Gcd(Abs(n), Abs(d))
        s == IF d < 0 THEN -1 ELSE 1
    IN  [n |-> (s * n) \div g, d |-> (s * d) \div g]

Num(k) == [n |-> k, d |-> 1]

IsInt(x) == x.d = 1

RECURSIVE IntPow(_, _)
IntPow(b, e) == IF e = 0 THEN 1 ELSE b * IntPow(b, e - 1)

\* the largest base (numerator or denominator) and exponent of a power the
\* model computes
PowBaseMax == 32
PowExpMax == 3

\* What an operation returns: a number, or the exception it raises.
\* "Unmodelled" marks a power outside the arithmetic of the model (a
\* fractional exponent, or a result too large for the model's integers).
Ok(x) == [kind |-> "ok", val |-> x]
Raise(k) == [kind |-> k, val |-> Num(0)]

Mul(a, b) == Ok(Frac(a.n * b.n, a.d * b.d))

TrueDiv(a, b) ==
    IF b.n = 0 THEN Raise("ZeroDivisionError")
    ELSE Ok(Frac(a.n * b.d, a.d * b.n))

\* floor of the quotient
FloorDiv(a, b) ==
    IF b.n = 0 THEN Raise("ZeroDivisionError")
    ELSE LET q == Frac(a.n * b.d, a.d * b.n)
         IN  Ok(Num(q.n \div q.d))

Pow(a, b) ==
    IF ~IsInt(b) \/ Abs(b.n) > PowExpMax \/ Abs(a.n) > PowBaseMax \/ a.d > PowBaseMax
    THEN Raise("Unmodelled")
    ELSE IF b.n >= 0 THEN Ok(Frac(IntPow(a.n, b.n), IntPow(a.d, b.n)))
    ELSE IF a.n = 0 THEN Raise("ZeroDivisionError")
    ELSE Ok(Frac(IntPow(a.d, -b.n), IntPow(a.n, -b.n)))

----------------------------------------------------------------------------
(* CompoundVar (utils.py).                                                 *)

\* the keys of self.oper_translator
Operators == {"//", "/", "*", "^"}

\* self.oper_translator[op](a, b)
OperTranslator(op, a, b) ==
    CASE op = "//" -> FloorDiv(a, b)
      [] op = "/"  -> TrueDiv(a, b)
      [] op = "*"  -> Mul(a, b)
      [] op = "^"  -> Pow(a, b)

\* A component of a compound variable: a parameter name (a str) or a
\* number.  name = "" marks a number.
Name(s) == [name |-> s, num |-> Num(0)]
Lit(k) == [name |-> "", num |-> Num(k)]
Computed(x) == [name |-> "", num |-> x]
IsStr(p) == p.name # ""

\* The order argument: a list, or None (anything that is not a list).
ListArg(l) == [isList |-> TRUE, list |-> l]
None == [isList |-> FALSE, list |-> <<>>]

\* _validate_input: TRUE when it raises SpecificationError
ValidateInputRaises(params, operations) ==
    \/ ~(Len(params) = Len(operations) + 1)
    \/ Len(params) < 2
    \/ \E k \in DOMAIN operations : operations[k] \notin Operators

\* InitOrder without the comparison of the sorted lists: a list of the
\* right length is kept whatever it holds
InitOrderLengthOnly(operations, order) ==
    IF ~order.isList THEN PyRange(Len(operations))
    ELSE IF Len(order.list) # Len(operations) THEN PyRange(Len(operations))
    ELSE order.list

\* the order __init__ assigns
InitOrder(operations, order) ==
    IF ~order.isList THEN PyRange(Len(operations))
    ELSE IF \/ Len(order.list) # Len(operations)
            \/ ~SameSorted(order.list, PyRange(Len(operations)))
         THEN PyRange(Len(operations))
         ELSE order.list

\* whether __init__ logs the "Assigning default order" warning
InitWarns(operations, order) ==
    /\ order.isList
    /\ \/ Len(order.list) # Len(operations)
       \/ ~SameSorted(order.list, PyRange(Len(operations)))

\* _param_as_numeric(param, data): data is a function from names to numbers
ParamAsNumeric(param, data) ==
    IF ~IsStr(param) THEN Ok(param.num)
    ELSE IF param.name \in DOMAIN data THEN Ok(Num(data[param.name]))
    ELSE Raise("SpecificationError")

\* len(list(filter(lambda x: x <= bound, popped)))
CountLeq(popped, bound) == Cardinality({k \in DOMAIN popped : popped[k] <= bound})

\* One pass of the loop of eval for the operation index oper_ix, from the
\* loop state st = [values, popped, exc].
EvalStep(operations, data, st, oper_ix) ==
    LET values == st.values
        popped == st.popped
        curpar_ix_corrected == oper_ix - CountLeq(popped, oper_ix)
        nextpar_ix_corrected == oper_ix + 1 - CountLeq(popped, oper_ix + 1)
        cur == PyIndex(Len(values), curpar_ix_corrected)
        nxt == PyIndex(Len(values), nextpar_ix_corrected)
    IN  IF cur = -1 \/ nxt = -1 THEN [st EXCEPT !.exc = "IndexError"]
        ELSE LET a == ParamAsNumeric(At(values, cur), data)
                 b == ParamAsNumeric(At(values, nxt), data)
             IN  IF a.kind # "ok" THEN [st EXCEPT !.exc = a.kind]
                 ELSE IF b.kind # "ok" THEN [st EXCEPT !.exc = b.kind]
                 ELSE LET r == OperTranslator(At(operations, oper_ix), a.val, b.val)
                      IN  IF r.kind # "ok" THEN [st EXCEPT !.exc = r.kind]
                          ELSE [values |-> PyPop(PySet(values, cur, Computed(r.val)), nxt),
                                popped |-> Append(popped, nextpar_ix_corrected),
                                exc    |-> "ok"]

RECURSIVE EvalLoop(_, _, _, _, _)
EvalLoop(operations, order, data, st, k) ==
    IF k > Len(order) \/ st.exc # "ok" THEN st
    ELSE EvalLoop(operations, order, data, EvalStep(operations, data, st, order[k]), k + 1)

\* CompoundVar.eval(data): the value returned, or the exception raised.
\* A TypeError is re-raised as SpecificationError; the model's numbers
\* raise none.
Eval(params, operations, order, data) ==
    LET st == EvalLoop(operations, order, data,
                       [values |-> params, popped |-> <<>>, exc |-> "ok"], 1)
    IN  IF st.exc # "ok" THEN Raise(st.exc)
        ELSE IF Len(st.values) = 0 THEN Raise("IndexError")
        ELSE LET v == At(st.values, 0)
             IN  IF IsStr(v) THEN [kind |-> "name", val |-> Num(0)] ELSE Ok(v.num)

----------------------------------------------------------------------------
(* Tables (pandas data frames).  A table is [cols, rows]: cols is the list *)
(* of the column names and rows the list of the rows, each a function from *)
(* the column names to cells.  A cell of the column net_type is a string;  *)
(* any other cell is a number in units of 10^-(PRECISION+1), or NaN.       *)

\* DataManager.PRECISION
PRECISION == 3

\* the number 1.0
Unit == 10 ^ (PRECISION + 1)

\* np.nan
NaN == -999999999

StrCols == {"net_type"}

OutcomeCols == <<"avg_exit_time", "exit_proba">>

Table(cols, rows) == [cols |-> cols, rows |-> rows]

EmptyTable == Table(<<>>, <<>>)

\* round(v, PRECISION) of one number: to the nearest multiple of
\* 10^-PRECISION, a tie to the even one
RoundNum(v) ==
    LET g == Unit \div (10 ^ PRECISION)
        m == Abs(v)
        q == m \div g
        r == m % g
        up == IF 2 * r > g THEN 1 ELSE IF 2 * r < g THEN 0 ELSE q % 2
        sgn == IF v < 0 THEN -1 ELSE 1
    IN  IF v = NaN THEN NaN ELSE sgn * (q + up) * g

RoundRow(row) ==
    [c \in DOMAIN row |-> IF c \in StrCols THEN row[c] ELSE RoundNum(row[c])]

\* DataFrame.round(PRECISION)
RoundTable(t) == Table(t.cols, [k \in DOMAIN t.rows |-> RoundRow(t.rows[k])])

\* the columns of a that are not columns of b, in the order of a
ColsMinus(a, b) == SelectSeq(a, LAMBDA c : c \notin Range(b))

\* the row over the columns cols: the cells of row, NaN where it has none
Reindex(row, cols) ==
    [c \in Range(cols) |-> IF c \in DOMAIN row THEN row[c] ELSE NaN]

\* pd.concat([a, b], ignore_index=True): the columns of a, then the other
\* columns of b; the rows of a, then the rows of b
Concat(a, b) ==
    LET cols == a.cols \o ColsMinus(b.cols, a.cols)
    IN  Table(cols, [k \in 1..(Len(a.rows) + Len(b.rows)) |->
                        IF k <= Len(a.rows) THEN Reindex(a.rows[k], cols)
                        ELSE Reindex(b.rows[k - Len(a.rows)], cols)])

\* the first occurrences of the rows, in their order: drop_duplicates
RECURSIVE DropDuplicates(_)
DropDuplicates(rows) ==
    IF rows = <<>> THEN <<>>
    ELSE LET front == DropDuplicates(SubSeq(rows, 1, Len(rows) - 1))
             last == rows[Len(rows)]
         IN  IF last \in Range(front) THEN front ELSE Append(front, last)

\* the alphabetical order of the strings of the model
StrOrder == <<"BA", "C", "FB", "WS", "XX">>

StrRank(s) == CHOOSE k \in DOMAIN StrOrder : StrOrder[k] = s

\* the order of two cells of the column c; NaN sorts last
CellLess(c, u, v) ==
    IF c \in StrCols THEN StrRank(u) < StrRank(v)
    ELSE IF u = NaN THEN FALSE
    ELSE IF v = NaN THEN TRUE
    ELSE u < v

\* the lexicographic order of two keys over the columns keyCols
RECURSIVE KeyLess(_, _, _)
KeyLess(keyCols, u, v) ==
    IF keyCols = <<>> THEN FALSE
    ELSE LET c == Head(keyCols)
         IN  IF u[c] = v[c] THEN KeyLess(Tail(keyCols), u, v)
             ELSE CellLess(c, u[c], v[c])

\* the keys of a set, sorted
RECURSIVE SortKeys(_, _)
SortKeys(keyCols, keys) ==
    IF keys = {} THEN <<>>
    ELSE LET least == CHOOSE u \in keys : \A v \in keys : ~KeyLess(keyCols, v, u)
         IN  <<least>> \o SortKeys(keyCols, keys \ {least})

KeyOf(row, keyCols) == [c \in Range(keyCols) |-> row[c]]

RECURSIVE Flatten(_)
Flatten(seqs) == IF seqs = <<>> THEN <<>> ELSE Head(seqs) \o Flatten(Tail(seqs))

\* pd.merge(left, right, how="outer", indicator=True): joined on the common
\* columns, the keys sorted; every row carries where it comes from in the
\* column _merge.
OuterMerge(left, right) ==
    LET keyCols == SelectSeq(left.cols, LAMBDA c : c \in Range(right.cols))
        cols == left.cols \o ColsMinus(right.cols, left.cols)
        keys == SortKeys(keyCols, {KeyOf(left.rows[k], keyCols) : k \in DOMAIN left.rows}
                                  \cup {KeyOf(right.rows[k], keyCols) : k \in DOMAIN right.rows})
        Tag(row, m) == [c \in Range(cols) \cup {"_merge"} |->
                          IF c = "_merge" THEN m
                          ELSE IF c \in DOMAIN row THEN row[c] ELSE NaN]
        Join(l, r) == [c \in Range(cols) |-> IF c \in DOMAIN l THEN l[c] ELSE r[c]]
        ForKey(key) ==
            LET ls == SelectSeq(left.rows, LAMBDA row : KeyOf(row, keyCols) = key)
                rs == SelectSeq(right.rows, LAMBDA row : KeyOf(row, keyCols) = key)
            IN  IF rs = <<>> THEN [k \in DOMAIN ls |-> Tag(ls[k], "left_only")]
                ELSE IF ls = <<>> THEN [k \in DOMAIN rs |-> Tag(rs[k], "right_only")]
                ELSE [k \in 1..(Len(ls) * Len(rs)) |->
                        Tag(Join(ls[((k - 1) \div Len(rs)) + 1], rs[((k - 1) % Len(rs)) + 1]),
                            "both")]
    IN  Table(Append(cols, "_merge"), Flatten([k \in DOMAIN keys |-> ForKey(keys[k])]))

\* merged.query('_merge=="tag"')[cols]
QueryMerge(merged, tag, cols) ==
    LET sel == SelectSeq(merged.rows, LAMBDA row : row["_merge"] = tag)
    IN  Table(cols, [k \in DOMAIN sel |-> [c \in Range(cols) |-> sel[k][c]]])

----------------------------------------------------------------------------
(* DataManager (dataoper.py).  The xml data storage file is [exists,       *)
(* data]: whether self.data_path.is_file(), and the table to_xml wrote,    *)
(* which _read_file reads back.                                            *)

NoFile == [exists |-> FALSE, data |-> EmptyTable]

\* data.to_xml(self.data_path)
ToXml(data) == [exists |-> TRUE, data |-> data]

\* _read_file()
ReadFile(file) == file.data

\* the messages of the FileManagementErrors of get_plotting_data
MsgNoFile == "Data file {self.data_path} does not exist. Plotting data cannot be prepared"
MsgIncomplete == "Data set for plots is not complete. Try to resimulate..."
MsgNull == "Some values required for plotting are not given"

\* get_working_data without drop_duplicates()
GetWorkingDataKeepDuplicates(full_data_req, file) ==
    LET existing_data == IF file.exists THEN ReadFile(file) ELSE EmptyTable
        reindexed == Table(full_data_req.cols,
                           [k \in DOMAIN existing_data.rows |->
                               Reindex(existing_data.rows[k], full_data_req.cols)])
        merged == OuterMerge(RoundTable(full_data_req), RoundTable(reindexed))
        left_only == QueryMerge(merged, "left_only", full_data_req.cols)
        cols == full_data_req.cols \o OutcomeCols
    IN  Table(cols, [k \in DOMAIN left_only.rows |-> Reindex(left_only.rows[k], cols)])

\* get_working_data that does not round the existing data
GetWorkingDataRawExisting(full_data_req, file) ==
    LET existing_data == IF file.exists THEN ReadFile(file) ELSE EmptyTable
        reindexed == Table(full_data_req.cols,
                           [k \in DOMAIN existing_data.rows |->
                               Reindex(existing_data.rows[k], full_data_req.cols)])
        merged == OuterMerge(RoundTable(full_data_req), reindexed)
        left_only == QueryMerge(merged, "left_only", full_data_req.cols)
        cols == full_data_req.cols \o OutcomeCols
    IN  Table(cols, LET rows == DropDuplicates(left_only.rows)
                    IN  [k \in DOMAIN rows |-> Reindex(rows[k], cols)])

\* get_working_data(full_data_req), given the file as it is read
GetWorkingData(full_data_req, file) ==
    LET existing_data == IF file.exists THEN ReadFile(file) ELSE EmptyTable
        reindexed == Table(full_data_req.cols,
                           [k \in DOMAIN existing_data.rows |->
                               Reindex(existing_data.rows[k], full_data_req.cols)])
        merged == OuterMerge(RoundTable(full_data_req), RoundTable(reindexed))
        left_only == QueryMerge(merged, "left_only", full_data_req.cols)
        cols == full_data_req.cols \o OutcomeCols
    IN  Table(cols, LET rows == DropDuplicates(left_only.rows)
                    IN  [k \in DOMAIN rows |-> Reindex(rows[k], cols)])

\* update_file that writes the new chunk over the file
UpdateFileOverwrite(new_data_chunk, file) == ToXml(new_data_chunk)

\* update_file(new_data_chunk): the file it writes, given the file it read
UpdateFile(new_data_chunk, file) ==
    IF file.exists
    THEN ToXml(Concat(RoundTable(ReadFile(file)), RoundTable(new_data_chunk)))
    ELSE ToXml(new_data_chunk)

\* _req_add_results that looks for the rows of the wrong side of the merge
ReqAddResultsLeftOnly(req, available_data) ==
    LET cols == req.cols \o OutcomeCols
        merged_data == OuterMerge(RoundTable(available_data), RoundTable(req))
        data_selection == QueryMerge(merged_data, "both", cols)
    IN  IF QueryMerge(merged_data, "left_only", available_data.cols).rows # <<>>
        THEN [raised |-> MsgIncomplete,
              table |-> EmptyTable]
        ELSE IF \E k \in DOMAIN data_selection.rows : \E c \in Range(cols) \ StrCols :
                    data_selection.rows[k][c] = NaN
        THEN [raised |-> MsgNull,
              table |-> EmptyTable]
        ELSE [raised |-> "", table |-> data_selection]

\* _req_add_results(req, available_data): the table returned, or the
\* message of the FileManagementError raised
ReqAddResults(req, available_data) ==
    LET cols == req.cols \o OutcomeCols
        merged_data == OuterMerge(RoundTable(available_data), RoundTable(req))
        data_selection == QueryMerge(merged_data, "both", cols)
    IN  IF QueryMerge(merged_data, "right_only", req.cols).rows # <<>>
        THEN [raised |-> MsgIncomplete,
              table |-> EmptyTable]
        ELSE IF \E k \in DOMAIN data_selection.rows : \E c \in Range(cols) \ StrCols :
                    data_selection.rows[k][c] = NaN
        THEN [raised |-> MsgNull,
              table |-> EmptyTable]
        ELSE [raised |-> "", table |-> data_selection]

\* get_plotting_data(plot_reqs): plot_reqs is the list of the requirement
\* tables of the plots; the list of the enriched tables, or the message of
\* the first FileManagementError raised
RECURSIVE PlottingLoop(_, _, _)
PlottingLoop(plot_reqs, available_data, done) ==
    IF Len(done) = Len(plot_reqs) THEN [raised |-> "", tables |-> done]
    ELSE LET res == ReqAddResults(plot_reqs[Len(done) + 1], available_data)
         IN  IF res.raised # "" THEN [raised |-> res.raised, tables |-> <<>>]
             ELSE PlottingLoop(plot_reqs, available_data, Append(done, res.table))

GetPlottingData(plot_reqs, file) ==
    IF file.exists THEN PlottingLoop(plot_reqs, ReadFile(file), <<>>)
    ELSE [raised |-> MsgNoFile,
          tables |-> <<>>]

----------------------------------------------------------------------------
(* The CompoundVar state machine: one object is constructed, then          *)
(* evaluated against one row.                                              *)

\* the largest number of operations of a compound variable in the model
MaxOps == 3

CvNames == <<"a", "b", "c", "d", "e", "f">>

\* the shapes of a component list: names only, or names and numbers
\* alternating (a number at the even or at the odd places)
CvShapes == {"names", "evens", "odds"}

CvParams(n, shape) ==
    [i \in 1..(n + 1) |->
        IF shape = "names" \/ (shape = "evens" /\ i % 2 = 1) \/ (shape = "odds" /\ i % 2 = 0)
        THEN Name(CvNames[i])
        ELSE Lit(i + 1)]

\* the rows eval is called with: the row of the example, a row without
\* "b", a row with a zero
CvRows ==
    { [a |-> 2, b |-> 3, c |-> 6, d |-> 5, e |-> 7, f |-> 4],
      [a |-> 2, c |-> 6, d |-> 5, e |-> 7, f |-> 4],
      [a |-> 2, b |-> 0, c |-> 6, d |-> 5, e |-> 7, f |-> 4] }

\* Arguments of __init__ in the model:
\*  - well-formed components and operations with no order or any
\*    permutation as the order;
\*  - names joined by "*" with any list over -1..n of a length up to n + 1
\*    as the order;
\*  - malformed components or operations.
CvEvalArgs ==
    UNION { { [params |-> CvParams(n, sh), operations |-> ops, order |-> o] :
                sh \in CvShapes,
                ops \in [1..n -> Operators],
                o \in {None} \cup {ListArg(p) : p \in PermsOf(n)} } : n \in 1..MaxOps }

CvOrderArgs ==
    UNION { { [params |-> [i \in 1..(n + 1) |-> Name(CvNames[i])],
               operations |-> [i \in 1..n |-> "*"],
               order |-> ListArg(o)] :
                o \in SeqsOf(-1..n, 0, n + 1) } : n \in 1..MaxOps }

CvBadArgs ==
    { [params |-> <<Name("a")>>, operations |-> <<>>, order |-> None],
      [params |-> <<Name("a"), Lit(2)>>, operations |-> <<"*", "/">>, order |-> None],
      [params |-> <<Name("a"), Lit(2)>>, operations |-> <<"+">>, order |-> ListArg(<<0>>)],
      [params |-> <<Name("a"), Lit(2), Lit(3)>>, operations |-> <<"*">>, order |-> ListArg(<<0, 0>>)] }

CvArgSet == CvEvalArgs \cup CvOrderArgs \cup CvBadArgs

CvInit ==
    /\ cvPc = "new"
    /\ cvArgs = [params |-> <<>>, operations |-> <<>>, order |-> None]
    /\ cvParams = <<>>
    /\ cvOperations = <<>>
    /\ cvOrder = <<>>
    /\ cvWarnings = 0
    /\ cvData = [a |-> 0]
    /\ cvResult = Raise("none")

\* CompoundVar.__init__(params, operations, order)
Construct(args) ==
    /\ cvPc = "new"
    /\ cvArgs' = args
    /\ IF ValidateInputRaises(args.params, args.operations)
       THEN /\ cvPc' = "raised"
            /\ UNCHANGED <<cvParams, cvOperations, cvOrder, cvWarnings>>
       ELSE /\ cvPc' = "built"
            /\ cvParams' = args.params
            /\ cvOperations' = args.operations
            /\ cvOrder' = InitOrder(args.operations, args.order)
            /\ cvWarnings' = IF InitWarns(args.operations, args.order) THEN 1 ELSE 0
    /\ UNCHANGED <<cvData, cvResult>>
    /\ UNCHANGED <<dmVars, rnVars, smVars>>

\* CompoundVar.eval(data)
EvalCall(data) ==
    /\ cvPc = "built"
    /\ cvPc' = "evaluated"
    /\ cvData' = data
    /\ cvResult' = Eval(cvParams, cvOperations, cvOrder, data)
    /\ UNCHANGED <<cvArgs, cvParams, cvOperations, cvOrder, cvWarnings>>
    /\ UNCHANGED <<dmVars, rnVars, smVars>>

CvNext ==
    \/ \E args \in CvArgSet : Construct(args)
    \/ \E data \in CvRows : EvalCall(data)


----------------------------------------------------------------------------
(* Claims about CompoundVar.                                               *)

\* The reference evaluation: the operations are applied in the given order;
\* operation k joins the remaining operand that holds the original operand
\* k with its right neighbour.  orig lists the original index of the
\* leftmost component of every remaining operand.
RefStep(operations, data, st, k) ==
    LET pos == CHOOSE j \in DOMAIN st.orig :
                  /\ st.orig[j] <= k
                  /\ \A i \in DOMAIN st.orig : st.orig[i] <= k => i <= j
        a == ParamAsNumeric(st.values[pos], data)
        b == ParamAsNumeric(st.values[pos + 1], data)
    IN  IF a.kind # "ok" THEN [st EXCEPT !.exc = a.kind]
        ELSE IF b.kind # "ok" THEN [st EXCEPT !.exc = b.kind]
        ELSE LET r == OperTranslator(At(operations, k), a.val, b.val)
             IN  IF r.kind # "ok" THEN [st EXCEPT !.exc = r.kind]
                 ELSE [values |-> [i \in 1..(Len(st.values) - 1) |->
                                     IF i < pos THEN st.values[i]
                                     ELSE IF i = pos THEN Computed(r.val)
                                     ELSE st.values[i + 1]],
                       orig   |-> [i \in 1..(Len(st.orig) - 1) |->
                                     IF i <= pos THEN st.orig[i] ELSE st.orig[i + 1]],
                       exc    |-> "ok"]

RECURSIVE RefLoop(_, _, _, _, _)
RefLoop(operations, order, data, st, k) ==
    IF k > Len(order) \/ st.exc # "ok" THEN st
    ELSE RefLoop(operations, order, data, RefStep(operations, data, st, order[k]), k + 1)

RefEval(params, operations, order, data) ==
    LET st == RefLoop(operations, order, data,
                      [values |-> params, orig |-> PyRange(Len(params)), exc |-> "ok"], 1)
    IN  IF st.exc # "ok" THEN Raise(st.exc) ELSE Ok(st.values[1].num)

IsPermutation(l, n) == Len(l) = n /\ Range(l) = 0..(n - 1)

\* C9: for every order that is a permutation of the operation indices, eval
\* applies the operations in that order, each to the operand at its place
\* and the operand to its right as of that step, and returns the one value
\* that remains: whenever the reference evaluation yields a value, eval
\* returns that value (powers outside the model's arithmetic set aside).
C9_EvalAppliesOrder ==
    (/\ cvPc = "evaluated"
     /\ RefEval(cvParams, cvOperations, cvOrder, cvData).kind = "ok"
     /\ cvResult.kind # "Unmodelled")
        => cvResult = RefEval(cvParams, cvOperations, cvOrder, cvData)

\* C9 holds for the default order (and for at most two operations): the
\* example of the specification, a * b / c on {a: 2, b: 3, c: 6}, gives 1.
C9_ExampleEvaluated ==
    /\ cvPc = "evaluated"
    /\ cvParams = <<Name("a"), Name("b"), Name("c")>>
    /\ cvOperations = <<"*", "/">>
    /\ cvOrder = <<0, 1>>
    /\ cvData.a = 2 /\ "b" \in DOMAIN cvData /\ cvData.b = 3 /\ cvData.c = 6
    /\ cvResult = Ok(Num(1))

\* C10: __init__ never raises because of the order argument.  A list that
\* is a permutation of the operation indices is kept as given, without a
\* warning; any other list is replaced by the default order [0..n-1] and
\* one warning is logged.
C10_InvalidOrderFallsBack ==
    /\ cvPc = "raised" => ValidateInputRaises(cvArgs.params, cvArgs.operations)
    /\ (cvPc \in {"built", "evaluated"} /\ cvArgs.order.isList) =>
          IF IsPermutation(cvArgs.order.list, Len(cvOperations))
          THEN cvOrder = cvArgs.order.list /\ cvWarnings = 0
          ELSE cvOrder = PyRange(Len(cvOperations)) /\ cvWarnings = 1

\* the order [0, 0] given for two operations became [0, 1], with a warning
C10_RepeatedIndexFellBack ==
    /\ cvPc = "built"
    /\ Len(cvOperations) = 2
    /\ cvArgs.order = ListArg(<<0, 0>>)
    /\ cvOrder = <<0, 1>>
    /\ cvWarnings = 1

\* C11: every failure of eval is a SpecificationError: whatever the row, a
\* call of eval returns a value or raises SpecificationError, and no other
\* exception (ZeroDivisionError of "/", "//" or "^" included).
C11_EvalRaisesOnlySpecificationError ==
    cvPc = "evaluated" =>
        cvResult.kind \in {"ok", "name", "SpecificationError", "Unmodelled"}

\* a name of the compound variable is absent from the row: eval raised
\* SpecificationError
C11_AbsentNameRaised ==
    /\ cvPc = "evaluated"
    /\ \E k \in DOMAIN cvParams : IsStr(cvParams[k]) /\ cvParams[k].name \notin DOMAIN cvData
    /\ cvResult = Raise("SpecificationError")

----------------------------------------------------------------------------
(* The DataManager state machine: update_file, get_working_data and        *)
(* get_plotting_data are called in any order on one storage file.          *)

\* the largest number of records of the storage file in the model
MaxStoreRows == 3

BaseCols == <<"mc_runs", "x", "q", "eps", "size", "net_type">>
NetCols == BaseCols \o <<"k">>

\* a parameter row on a complete graph with x = x (in units of 10^-4)
BaseRow(x) ==
    [mc_runs |-> 10 * Unit, x |-> x, q |-> 2 * Unit, eps |-> Unit \div 10,
     size |-> 50 * Unit, net_type |-> "C"]

\* a parameter row of a table that has the column k
NetRow(x, net, k) ==
    [mc_runs |-> 10 * Unit, x |-> x, q |-> 2 * Unit, eps |-> Unit \div 10,
     size |-> 50 * Unit, net_type |-> net, k |-> k]

\* x = 0.5, 0.1234 and 0.123: the last two are equal once rounded
DmP1 == BaseRow(5000)
DmP2 == BaseRow(1234)
DmP3 == BaseRow(1230)

\* the requirement tables of the model
DmReqTables ==
    { Table(BaseCols, <<DmP1>>),
      Table(BaseCols, <<DmP2, DmP3>>),
      Table(BaseCols, <<DmP1, DmP2>>),
      Table(BaseCols, <<DmP3, DmP1, DmP3>>),
      Table(NetCols, <<NetRow(5000, "BA", 4 * Unit)>>),
      Table(NetCols, <<NetRow(5000, "C", NaN), NetRow(5000, "BA", 4 * Unit)>>) }

\* the outcomes (avg_exit_time, exit_proba) the rows of a chunk carry:
\* 12.3456 and 0.5; 7.0005 and 0.25; no outcome
DmOutcomes == { <<123456, 5000>>, <<70005, 2500>>, <<NaN, NaN>> }

WithOutcomes(req, o) ==
    Table(req.cols \o OutcomeCols,
          [k \in DOMAIN req.rows |->
              [c \in Range(req.cols \o OutcomeCols) |->
                  IF c = "avg_exit_time" THEN o[1]
                  ELSE IF c = "exit_proba" THEN o[2]
                  ELSE req.rows[k][c]]])

\* the chunks update_file is called with
DmChunks == {WithOutcomes(req, o) : req \in DmReqTables, o \in DmOutcomes}

\* the lists of plot requirement tables get_plotting_data is called with
DmPlotReqs ==
    { <<Table(BaseCols, <<DmP1>>)>>,
      <<Table(BaseCols, <<DmP1, DmP2>>), Table(BaseCols, <<DmP1>>)>>,
      <<Table(BaseCols, <<DmP2, DmP3>>)>>,
      <<Table(NetCols, <<NetRow(5000, "BA", 4 * Unit)>>), Table(BaseCols, <<DmP1>>)>> }

NoCall == [op |-> "none"]

\* the parameter columns of a table that has the outcome columns
ParamsOf(t) ==
    LET cols == ColsMinus(t.cols, OutcomeCols)
    IN  Table(cols, [k \in DOMAIN t.rows |-> [c \in Range(cols) |-> t.rows[k][c]]])

DmInit ==
    /\ dmFile = NoFile
    /\ dmBefore = NoFile
    /\ dmCall = NoCall
    /\ dmPrev = NoCall

\* DataManager.update_file(new_data_chunk)
UpdateFileCall(new_data_chunk) ==
    /\ Len(dmFile.data.rows) + Len(new_data_chunk.rows) <= MaxStoreRows
    /\ dmFile' = UpdateFile(new_data_chunk, dmFile)
    /\ dmBefore' = dmFile
    /\ dmCall' = [op |-> "update_file", arg |-> new_data_chunk]
    /\ dmPrev' = NoCall
    /\ UNCHANGED <<cvVars, rnVars, smVars>>

\* get_working_data that saves the rows it returns to the file
GetWorkingDataCallSaving(full_data_req) ==
    /\ dmCall' = [op |-> "get_working_data", arg |-> full_data_req,
                  out |-> GetWorkingData(full_data_req, dmFile)]
    /\ dmPrev' = IF \/ dmCall.op = "get_working_data" /\ dmCall.arg = full_data_req
                    \/ dmCall.op = "update_file" /\ ParamsOf(dmCall.arg) = full_data_req
                 THEN dmCall ELSE NoCall
    /\ dmBefore' = dmFile
    /\ dmFile' = IF GetWorkingData(full_data_req, dmFile).rows = <<>> THEN dmFile
                 ELSE UpdateFile(GetWorkingData(full_data_req, dmFile), dmFile)
    /\ UNCHANGED <<cvVars, rnVars, smVars>>

\* DataManager.get_working_data(full_data_req)
GetWorkingDataCall(full_data_req) ==
    /\ dmCall' = [op |-> "get_working_data", arg |-> full_data_req,
                  out |-> GetWorkingData(full_data_req, dmFile)]
    /\ dmPrev' = IF \/ dmCall.op = "get_working_data" /\ dmCall.arg = full_data_req
                    \/ dmCall.op = "update_file" /\ ParamsOf(dmCall.arg) = full_data_req
                 THEN dmCall ELSE NoCall
    /\ dmBefore' = dmFile
    /\ dmFile' = dmFile
    /\ UNCHANGED <<cvVars, rnVars, smVars>>

\* DataManager.get_plotting_data(plot_reqs)
GetPlottingDataCall(plot_reqs) ==
    /\ dmCall' = [op |-> "get_plotting_data", arg |-> plot_reqs,
                  out |-> GetPlottingData(plot_reqs, dmFile)]
    /\ dmPrev' = NoCall
    /\ dmBefore' = dmFile
    /\ dmFile' = dmFile
    /\ UNCHANGED <<cvVars, rnVars, smVars>>

DmNext ==
    \/ \E chunk \in DmChunks : UpdateFileCall(chunk)
    \/ \E req \in DmReqTables : GetWorkingDataCall(req)
    \/ \E reqs \in DmPlotReqs : GetPlottingDataCall(reqs)

----------------------------------------------------------------------------
(* Claims about DataManager.                                               *)

\* the rows of a list, as a set
RowSet(rows) == Range(rows)

\* a record of the store carries, once rounded, the values of the row on
\* the columns cols (NaN where the record has no such column)
SameOn(record, row, cols) ==
    \A c \in Range(cols) :
        IF c \in StrCols THEN c \in DOMAIN record /\ record[c] = row[c]
        ELSE RoundNum(IF c \in DOMAIN record THEN record[c] ELSE NaN) = RoundNum(row[c])

InStore(row, cols, store) ==
    store.exists /\ \E k \in DOMAIN store.data.rows : SameOn(store.data.rows[k], row, cols)

\* C4: update_file(rows) followed at once by get_working_data on the
\* parameter columns of exactly those rows returns no row, whether or not
\* the file existed before update_file.
C4_PersistThenMissingIsEmpty ==
    (dmCall.op = "get_working_data" /\ dmPrev.op = "update_file")
        => dmCall.out.rows = <<>>

\* the round trip on the file that update_file created, with a value
\* (x = 0.1234) that is not rounded
C4_RoundTripOnCreatedFile ==
    /\ dmCall.op = "get_working_data"
    /\ dmPrev.op = "update_file"
    /\ dmFile.data.rows = dmPrev.arg.rows
    /\ \E k \in DOMAIN dmFile.data.rows : dmFile.data.rows[k].x = 1234
    /\ dmCall.out.rows = <<>>

\* C5: get_working_data(required) returns exactly the distinct rounded
\* required rows for which the store holds no record with the same rounded
\* values on the required columns: none is left out, none that the store
\* holds is returned, none is returned twice, both outcome cells of every
\* returned row are NaN; without a file every distinct required row is
\* returned.
C5_MissingIsSetDifference ==
    dmCall.op = "get_working_data" =>
        LET req == dmCall.arg
            out == dmCall.out
            distinct == {RoundRow(req.rows[k]) : k \in DOMAIN req.rows}
            expected == {row \in distinct : ~InStore(row, req.cols, dmFile)}
        IN  /\ RowSet(ParamsOf(out).rows) = expected
            /\ Cardinality(RowSet(out.rows)) = Len(out.rows)
            /\ \A k \in DOMAIN out.rows :
                  out.rows[k]["avg_exit_time"] = NaN /\ out.rows[k]["exit_proba"] = NaN
            /\ ~dmFile.exists => RowSet(ParamsOf(out).rows) = distinct

\* a call that returns some of the required rows and leaves out one the
\* store holds
C5_SomeMissingSomeStored ==
    /\ dmCall.op = "get_working_data"
    /\ dmFile.exists
    /\ dmCall.out.rows # <<>>
    /\ \E k \in DOMAIN dmCall.arg.rows : InStore(RoundRow(dmCall.arg.rows[k]), dmCall.arg.cols, dmFile)

MatchesReport(record, row, req, store) ==
    \A c \in Range(req.cols) \cap Range(store.cols) :
        IF c \in StrCols THEN record[c] = row[c]
        ELSE RoundNum(record[c]) = RoundNum(row[c])

ReportIncomplete(req, store) ==
    \E k \in DOMAIN req.rows :
        \A j \in DOMAIN store.rows : ~MatchesReport(store.rows[j], req.rows[k], req, store)

ReportHasNull(req, store) ==
    \E k \in DOMAIN req.rows : \E j \in DOMAIN store.rows :
        /\ MatchesReport(store.rows[j], req.rows[k], req, store)
        /\ store.rows[j]["avg_exit_time"] = NaN \/ store.rows[j]["exit_proba"] = NaN

\* C8: get_plotting_data raises a FileManagementError when the file does
\* not exist.  Otherwise the first report that has a required row without
\* a matching record, or a matched record with a null outcome, makes it
\* raise: "not complete, resimulate" in the first case, another message in
\* the second.  When it returns, the table of every report has, for every
\* required row, the matching records with their outcomes, none of them
\* null: it never returns a partial table.
C8_PlottingDataCompleteOrRaises ==
    dmCall.op = "get_plotting_data" =>
        LET reqs == dmCall.arg
            out == dmCall.out
            store == dmFile.data
            bad == {i \in DOMAIN reqs : ReportIncomplete(reqs[i], store) \/ ReportHasNull(reqs[i], store)}
        IN  IF ~dmFile.exists THEN out.raised = MsgNoFile
            ELSE IF bad # {}
            THEN LET first == CHOOSE i \in bad : \A j \in bad : i <= j
                 IN  out.raised = IF ReportIncomplete(reqs[first], store) THEN MsgIncomplete ELSE MsgNull
            ELSE /\ out.raised = ""
                 /\ Len(out.tables) = Len(reqs)
                 /\ \A i \in DOMAIN reqs : \A k \in DOMAIN reqs[i].rows :
                       \E j \in DOMAIN out.tables[i].rows :
                          /\ \A c \in Range(reqs[i].cols) :
                                out.tables[i].rows[j][c] = RoundRow(reqs[i].rows[k])[c]
                          /\ out.tables[i].rows[j]["avg_exit_time"] # NaN
                          /\ out.tables[i].rows[j]["exit_proba"] # NaN

\* every required row of the reports is matched and a matched record has a
\* null outcome: the second message
C8_NullOutcomeRaised ==
    /\ dmCall.op = "get_plotting_data"
    /\ dmFile.exists
    /\ \A i \in DOMAIN dmCall.arg : ~ReportIncomplete(dmCall.arg[i], dmFile.data)
    /\ dmCall.out.raised = MsgNull

\* C22: after every update_file call every number of every record of the
\* file (the parameters and both outcomes) is rounded to PRECISION
\* decimals, also after the call that creates the file.
C22_StoreRoundedAfterPersist ==
    dmCall.op = "update_file" =>
        \A k \in DOMAIN dmFile.data.rows : dmFile.data.rows[k] = RoundRow(dmFile.data.rows[k])

\* update_file created the file from a chunk with a number that is not
\* rounded
C22_CreatedFromUnroundedChunk ==
    /\ dmCall.op = "update_file"
    /\ ~dmBefore.exists
    /\ dmFile.data.rows = dmCall.arg.rows
    /\ \E k \in DOMAIN dmCall.arg.rows : dmCall.arg.rows[k] # RoundRow(dmCall.arg.rows[k])

----------------------------------------------------------------------------
(* SimulParams and SimulCollector (simul.py).                              *)

\* int(param) of a float: the integer part, toward zero
PyInt(v) == IF v < 0 THEN -(((-v) \div Unit) * Unit) ELSE (v \div Unit) * Unit

NetKeys == {"BA", "WS", "C", "FB"}

Parsed(value) == [raised |-> FALSE, value |-> value]
ParamError == [raised |-> TRUE, value |-> NaN]

\* SimulParams.parse_param(param, expected_type): the safe parameter, or a
\* SimulationError.  int(nan) is a Rejected; float(nan) is nan, and nan
\* is neither < 0 nor > 1.
ParseParam(param, expected_type) ==
    IF expected_type = "number"
    THEN IF param = NaN THEN ParamError
         ELSE IF PyInt(param) < Unit THEN ParamError
         ELSE Parsed(PyInt(param))
    ELSE IF expected_type = "float_prop"
    THEN IF param # NaN /\ (param < 0 \/ param > Unit) THEN ParamError
         ELSE Parsed(param)
    ELSE IF param \notin NetKeys THEN ParamError ELSE Parsed(param)

\* SimulParams.parse_net_params(net_params, net_type): net_params holds
\* every cell of the row that is not a named argument of __init__
ParseNetParams(net_params, net_type) ==
    LET k == ParseParam(net_params["k"], "number")
        beta == ParseParam(net_params["beta"], "float_prop")
    IN  IF net_type = "BA"
        THEN IF "k" \notin DOMAIN net_params \/ k.raised THEN ParamError
             ELSE Parsed([c \in {"k"} |-> k.value])
        ELSE IF net_type = "WS"
        THEN IF "k" \notin DOMAIN net_params \/ k.raised THEN ParamError
             ELSE IF "beta" \notin DOMAIN net_params \/ beta.raised THEN ParamError
             ELSE Parsed([c \in {"k", "beta"} |-> IF c = "k" THEN k.value ELSE beta.value])
        ELSE Parsed([c \in {} |-> NaN])

\* SimulParams(**raw_params_dict).to_dict(): the parsed parameters, or a
\* SimulationError
SimulParams(raw) ==
    LET kinds == [mc_runs |-> "number", x |-> "float_prop", q |-> "number",
                  eps |-> "float_prop", size |-> "number", net_type |-> "net_key"]
        common == [c \in DOMAIN kinds |-> ParseParam(raw[c], kinds[c])]
        net_params == ParseNetParams(raw, common["net_type"].value)
    IN  IF \E c \in DOMAIN kinds : common[c].raised THEN ParamError
        ELSE IF net_params.raised THEN ParamError
        ELSE Parsed([c \in DOMAIN kinds \cup DOMAIN net_params.value |->
                        IF c \in DOMAIN kinds THEN common[c].value
                        ELSE net_params.value[c]])

\* what examine_q_voter returns when it returns: an average exit time of
\* 12.3456 and an exit probability of 0.5
EngineResults == [avg_exit_time |-> 123456, exit_proba |-> 5000]

\* _run_one(ix) when nothing raises: self.data.loc[ix, new_row.keys()] =
\* new_row.values()
RunOneRow(data, ix, simul_params, results) ==
    Table(data.cols,
          [k \in DOMAIN data.rows |->
              IF k # ix + 1 THEN data.rows[k]
              ELSE [c \in Range(data.cols) |->
                       IF c \in DOMAIN results THEN results[c]
                       ELSE IF c \in DOMAIN simul_params THEN simul_params[c]
                       ELSE data.rows[k][c]]])

\* -(-n // c): np.ceil(n / c)
CeilDiv(n, c) == (n + c - 1) \div c

\* a split into sections of n // sections indices each
ArraySplitEqual(n, sections) ==
    LET each == n \div sections
    IN  [i \in 1..sections |-> [j \in 1..each |-> (i - 1) * each + j - 1]]

\* np.array_split(range(n), sections): the first n % sections chunks have
\* n // sections + 1 indices, the others n // sections
ArraySplit(n, sections) ==
    LET each == n \div sections
        extras == n % sections
        start(i) == (i - 1) * each + (IF i - 1 < extras THEN i - 1 ELSE extras)
        size(i) == each + (IF i <= extras THEN 1 ELSE 0)
    IN  [i \in 1..sections |-> [j \in 1..size(i) |-> start(i) + j - 1]]

\* self.data.iloc[chunk_indices]
Iloc(data, chunk_indices) ==
    Table(data.cols, [j \in DOMAIN chunk_indices |-> data.rows[chunk_indices[j] + 1]])

----------------------------------------------------------------------------
(* The SimulCollector state machine: the application is invoked on one     *)
(* plot specification and one storage file, at most MaxRuns times.  Every  *)
(* invocation builds a SimulCollector and calls run(); the chunks are      *)
(* mapped on a pool of NumWorkers processes.  pool.map pickles the bound   *)
(* method with every task, so every task works on its own copy of          *)
(* self.data; with at most 4 * NumWorkers chunks every chunk is one task,  *)
(* and map returns or raises only when every task has ended.               *)

\* os.cpu_count() of the model
NumWorkers == 2
MaxRuns == 2
MaxChunkSize == 2

Workers == 1..NumWorkers

\* q = 2.7, and x = 1.5 that parse_param refuses
RnQ27 == [BaseRow(5000) EXCEPT !.q = 27000]
RnBad == BaseRow(15000)

\* the requirement tables parse_req returns in the model
RnReqTables ==
    { Table(BaseCols, <<BaseRow(5000), BaseRow(1230), BaseRow(2500)>>),
      Table(BaseCols, <<RnQ27, RnBad>>),
      Table(BaseCols, <<RnQ27>>),
      Table(NetCols, <<NetRow(5000, "BA", 4 * Unit), NetRow(5000, "WS", 4 * Unit),
                       NetRow(5000, "C", NaN)>>) }

IdleWorker == [pc |-> "idle", task |-> 0, pos |-> 0, data |-> EmptyTable, read |-> NoFile]

\* the history of the storage file: for every record of the file, the
\* invocation and the chunk that wrote it and the row of self.data it was
\* simulated for (origins); the same for the records a worker has read
\* (reads); the records that were in the file when a chunk failed (kept)
EmptyLog == [origins |-> <<>>, reads |-> [w \in Workers |-> <<>>], kept |-> {}]

RnInit ==
    /\ rnSpec \in [req : RnReqTables, chunk_size : 1..MaxChunkSize]
    /\ rnFile = NoFile
    /\ rnRun = 1
    /\ rnPc = "start"
    /\ rnData = EmptyTable
    /\ rnTasks = <<>>
    /\ rnWorkers = [w \in Workers |-> IdleWorker]
    /\ rnLog = EmptyLog

\* SimulCollector.__init__
NewCollector ==
    /\ rnPc = "start"
    /\ rnData' = GetWorkingData(rnSpec.req, rnFile)
    /\ rnPc' = "built"
    /\ UNCHANGED <<rnSpec, rnFile, rnRun, rnTasks, rnWorkers, rnLog, cvVars, dmVars, smVars>>

\* run() and _run() up to pool.map handing out the chunks
Run ==
    /\ rnPc = "built"
    /\ IF rnData.rows = <<>>
       THEN rnPc' = "done" /\ rnTasks' = rnTasks
       ELSE /\ rnPc' = "mapping"
            /\ rnTasks' =
                  LET chunk_indices_list ==
                          ArraySplit(Len(rnData.rows), CeilDiv(Len(rnData.rows), rnSpec.chunk_size))
                  IN  [t \in DOMAIN chunk_indices_list |->
                          [chunk_indices |-> chunk_indices_list[t], status |-> "queued"]]
    /\ UNCHANGED <<rnSpec, rnFile, rnRun, rnData, rnWorkers, rnLog, cvVars, dmVars, smVars>>

\* a free pool process takes the next chunk of the task queue
TakeTask(w) ==
    /\ rnPc = "mapping"
    /\ rnWorkers[w].pc = "idle"
    /\ \E t \in DOMAIN rnTasks :
          /\ rnTasks[t].status = "queued"
          /\ \A u \in 1..(t - 1) : rnTasks[u].status # "queued"
          /\ rnTasks' = [rnTasks EXCEPT ![t].status = "taken"]
          /\ rnWorkers' = [rnWorkers EXCEPT ![w] =
                              [pc |-> "running", task |-> t, pos |-> 0,
                               data |-> rnData, read |-> NoFile]]
    /\ UNCHANGED <<rnSpec, rnFile, rnRun, rnPc, rnData, rnLog, cvVars, dmVars, smVars>>

\* the records of the history for the rows of chunk t of this invocation
OriginsOf(t) ==
    [j \in DOMAIN rnTasks[t].chunk_indices |->
        [run |-> rnRun, chunk |-> t,
         row |-> ParamsOf(rnData).rows[rnTasks[t].chunk_indices[j] + 1]]]

\* the task of process w ends with an exception
TaskFails(w) ==
    /\ rnTasks' = [rnTasks EXCEPT ![rnWorkers[w].task].status = "failed"]
    /\ rnWorkers' = [rnWorkers EXCEPT ![w] = IdleWorker]
    /\ rnLog' = [rnLog EXCEPT !.kept = @ \cup Range(rnLog.origins)]

\* _run_one(ix) for the next index of the chunk of process w:
\* examine_q_voter returns (engine_ok) or raises
RunOne(w, engine_ok) ==
    /\ rnWorkers[w].pc = "running"
    /\ rnWorkers[w].pos < Len(rnTasks[rnWorkers[w].task].chunk_indices)
    /\ LET ix == rnTasks[rnWorkers[w].task].chunk_indices[rnWorkers[w].pos + 1]
           raw_params_dict == rnWorkers[w].data.rows[ix + 1]
           simul_params == SimulParams(raw_params_dict)
       IN  IF simul_params.raised \/ ~engine_ok
           THEN TaskFails(w)
           ELSE /\ rnWorkers' = [rnWorkers EXCEPT
                                    ![w].data = RunOneRow(@, ix, simul_params.value, EngineResults),
                                    ![w].pos = @ + 1]
                /\ UNCHANGED <<rnTasks, rnLog>>
    /\ UNCHANGED <<rnSpec, rnFile, rnRun, rnPc, rnData, cvVars, dmVars, smVars>>

\* update_file in process w, up to _read_file: the chunk is simulated
UpdateFileRead(w) ==
    /\ rnWorkers[w].pc = "running"
    /\ rnWorkers[w].pos = Len(rnTasks[rnWorkers[w].task].chunk_indices)
    /\ rnWorkers' = [rnWorkers EXCEPT ![w].pc = "writing", ![w].read = rnFile]
    /\ rnLog' = [rnLog EXCEPT !.reads[w] = rnLog.origins]
    /\ UNCHANGED <<rnSpec, rnFile, rnRun, rnPc, rnData, rnTasks, cvVars, dmVars, smVars>>

\* update_file in process w, from pd.concat to to_xml; _run_chunk returns
UpdateFileWrite(w) ==
    /\ rnWorkers[w].pc = "writing"
    /\ rnFile' = UpdateFile(Iloc(rnWorkers[w].data, rnTasks[rnWorkers[w].task].chunk_indices),
                            rnWorkers[w].read)
    /\ rnTasks' = [rnTasks EXCEPT ![rnWorkers[w].task].status = "saved"]
    /\ rnWorkers' = [rnWorkers EXCEPT ![w] = IdleWorker]
    /\ rnLog' = [rnLog EXCEPT !.origins = rnLog.reads[w] \o OriginsOf(rnWorkers[w].task),
                              !.reads[w] = <<>>]
    /\ UNCHANGED <<rnSpec, rnRun, rnPc, rnData, cvVars, dmVars, smVars>>

\* pool.map returns, or raises the exception of a task and _run raises
\* SimulationError
MapReturns ==
    /\ rnPc = "mapping"
    /\ \A t \in DOMAIN rnTasks : rnTasks[t].status \in {"saved", "failed"}
    /\ rnPc' = IF \E t \in DOMAIN rnTasks : rnTasks[t].status = "failed"
               THEN "raised" ELSE "done"
    /\ UNCHANGED <<rnSpec, rnFile, rnRun, rnData, rnTasks, rnWorkers, rnLog, cvVars, dmVars, smVars>>

\* the application is invoked again on the same specification and file
Reinvoke ==
    /\ rnPc \in {"done", "raised"}
    /\ rnRun < MaxRuns
    /\ rnRun' = rnRun + 1
    /\ rnPc' = "start"
    /\ rnData' = EmptyTable
    /\ rnTasks' = <<>>
    /\ UNCHANGED <<rnSpec, rnFile, rnWorkers, rnLog, cvVars, dmVars, smVars>>

RnNext ==
    \/ NewCollector
    \/ Run
    \/ \E w \in Workers : TakeTask(w)
    \/ \E w \in Workers : \E engine_ok \in BOOLEAN : RunOne(w, engine_ok)
    \/ \E w \in Workers : UpdateFileRead(w)
    \/ \E w \in Workers : UpdateFileWrite(w)
    \/ MapReturns
    \/ Reinvoke

----------------------------------------------------------------------------
(* Claims about SimulCollector.                                            *)

\* C1: during run() no two pool processes are inside update_file (between
\* its read of the file and its write) at the same time.
C1_NoTwoWorkersInsideWrite ==
    Cardinality({w \in Workers : rnWorkers[w].pc = "writing"}) <= 1

\* C2, first half: no row of a chunk that failed is written to the file.
C2_FailedChunkNotWritten ==
    \A t \in DOMAIN rnTasks :
        rnTasks[t].status = "failed" =>
            \A j \in DOMAIN rnLog.origins :
                ~(rnLog.origins[j].run = rnRun /\ rnLog.origins[j].chunk = t)

\* C2: no row of a chunk that failed is written to the file, and the
\* records that were in the file when a chunk failed stay in the file.
C2_FailureKeepsEarlierChunks ==
    /\ C2_FailedChunkNotWritten
    /\ rnLog.kept \subseteq Range(rnLog.origins)

\* C3: the rows an invocation simulates are rows that no earlier
\* invocation has written to the file.
C3_RetrySkipsPersistedRows ==
    \A k \in DOMAIN rnData.rows : \A j \in DOMAIN rnLog.origins :
        ~(/\ rnLog.origins[j].run < rnRun
          /\ rnLog.origins[j].row = ParamsOf(rnData).rows[k])

----------------------------------------------------------------------------
(* Floats.  A float is the fraction it stands for; every float operation   *)
(* rounds the exact result to MantissaBits significant bits, a tie to the  *)
(* even mantissa, as binary64 does with 53.  A small integer is a float    *)
(* that every operation keeps exact, as Python and numpy integers are.     *)

MantissaBits == 9

Less(a, b) == a.n * b.d < b.n * a.d
Add(a, b) == Frac(a.n * b.d + b.n * a.d, a.d * b.d)
Sub(a, b) == Frac(a.n * b.d - b.n * a.d, a.d * b.d)

\* a * 2^e
Scale2(a, e) == IF e >= 0 THEN Frac(a.n * (2 ^ e), a.d) ELSE Frac(a.n, a.d * (2 ^ (-e)))

\* the e for which 2^(MantissaBits-1) <= a * 2^e < 2^MantissaBits, a > 0
RECURSIVE FlExp(_, _)
FlExp(a, e) ==
    IF Less(Scale2(a, e), Num(2 ^ (MantissaBits - 1))) THEN FlExp(a, e + 1)
    ELSE IF ~Less(Scale2(a, e), Num(2 ^ MantissaBits)) THEN FlExp(a, e - 1)
    ELSE e

\* y, at least 2^(MantissaBits-1) and less than 2^MantissaBits, rounded to
\* the nearest integer, a tie to the even one
RoundHalfEven(y) ==
    LET m == y.n \div y.d
        r == y.n % y.d
    IN  m + (IF 2 * r > y.d THEN 1 ELSE IF 2 * r < y.d THEN 0 ELSE m % 2)

\* the float nearest to x, whose exponent is -e
FlAt(x, e) ==
    Scale2(Num((IF x.n < 0 THEN -1 ELSE 1) * RoundHalfEven(Scale2(Frac(Abs(x.n), x.d), e))), -e)

\* the float nearest to x
Fl(x) ==
    IF x.n = 0 THEN x ELSE FlAt(x, FlExp(Frac(Abs(x.n), x.d), 0))

FAdd(a, b) == Fl(Add(a, b))
FSub(a, b) == Fl(Sub(a, b))
FMul(a, b) == Fl(Frac(a.n * b.n, a.d * b.d))
FDiv(a, b) == Fl(Frac(a.n * b.d, a.d * b.n))

\* math.ceil
Ceil(x) == -((-x.n) \div x.d)

\* np.arange(start, stop, step), step # 0: ceil((stop - start) / step)
\* elements; the first is start, the second start + step, and element i
\* is start + i * delta, delta the second element minus the first
ARange(start, stop, step) ==
    LET length == Ceil(FDiv(FSub(stop, start), step))
        next == FAdd(start, step)
        delta == FSub(next, start)
    IN  IF length <= 0 THEN <<>>
        ELSE [i \in 1..length |->
                 IF i = 1 THEN start
                 ELSE IF i = 2 THEN next
                 ELSE FAdd(start, FMul(Num(i - 1), delta))]

----------------------------------------------------------------------------
(* SpecManager (dataoper.py): values.  A value of the json specification   *)
(* and a cell of a requirement table have one shape, [t, num, str, items,  *)
(* cv]: t tells which of the other fields is read.                         *)
(*   "num"       a number: num, as written in the file (a json value) or   *)
(*               as a float (a cell);                                      *)
(*   "str"       a string: str;                                            *)
(*   "list"      a list: items;                                            *)
(*   "range"     a dictionary with the keys start, step, stop: items;      *)
(*   "compound"  a dictionary with the keys params, operations and maybe   *)
(*               order: cv;                                                *)
(*   "dict"      any other dictionary;                                     *)
(*   "null"      None;                                                     *)
(*   "cvobj"     a CompoundVar object (a cell): cv, order being self.order *)
(* The lists of the model hold numbers only or strings only.               *)

NoCv == [params |-> <<>>, operations |-> <<>>, order |-> None]
JVal(t, num, str, items, cv) == [t |-> t, num |-> num, str |-> str, items |-> items, cv |-> cv]
JNum(x) == JVal("num", x, "", <<>>, NoCv)
JStr(str) == JVal("str", Num(0), str, <<>>, NoCv)
JList(items) == JVal("list", Num(0), "", items, NoCv)
JRange(start, step, stop) == JVal("range", Num(0), "", <<JNum(start), JNum(step), JNum(stop)>>, NoCv)
JCompound(params, operations, order) ==
    JVal("compound", Num(0), "", <<>>,
         [params |-> params, operations |-> operations, order |-> order])
JDict == JVal("dict", Num(0), "", <<>>, NoCv)
JNull == JVal("null", Num(0), "", <<>>, NoCv)

\* CompoundVar(val["params"], val["operations"], val.get("order"))
CvObj(cv) ==
    JVal("cvobj", Num(0), "", <<>>,
         [params |-> cv.params, operations |-> cv.operations,
          order |-> ListArg(InitOrder(cv.operations, cv.order))])

\* the number json.load reads: the int as written, or the float nearest to
\* the decimal written
JsonNumber(x) == IF IsInt(x) THEN x ELSE Fl(x)

\* a < b for two numbers or two strings
CellBefore(a, b) ==
    IF a.t = "num" THEN Less(a.num, b.num) ELSE StrRank(a.str) < StrRank(b.str)

\* np.unique: the distinct elements, sorted
RECURSIVE NpUnique(_)
NpUnique(items) ==
    IF items = <<>> THEN <<>>
    ELSE LET rest == NpUnique(SubSeq(items, 1, Len(items) - 1))
             last == items[Len(items)]
         IN  IF last \in Range(rest) THEN rest
             ELSE SelectSeq(rest, LAMBDA c : CellBefore(c, last))
                  \o <<last>>
                  \o SelectSeq(rest, LAMBDA c : CellBefore(last, c))

\* what _process_value returns: an ndarray, a single value (a number, a
\* string or a CompoundVar) or None; or the SpecificationError it raises
Returned(kind, items) == [raised |-> FALSE, kind |-> kind, items |-> items]
Rejected == [raised |-> TRUE, kind |-> "None", items |-> <<>>]

\* the last step of _process_value: np.array([parsed_val]) unless
\* single_str
Wrapped(cell, single_str) ==
    Returned(IF single_str THEN "single" ELSE "array", <<cell>>)

\* _process_value(val, multiple, single_str)
ProcessValue(val, multiple, single_str) ==
    IF val.t = "num" THEN Wrapped(JNum(JsonNumber(val.num)), single_str)
    ELSE IF val.t = "str" THEN Wrapped(val, single_str)
    ELSE IF multiple /\ val.t = "list"
    THEN LET parsed_val ==
                 NpUnique([k \in DOMAIN val.items |->
                              IF val.items[k].t = "num" THEN JNum(JsonNumber(val.items[k].num))
                              ELSE val.items[k]])
         IN  IF /\ Len(val.items) > 1
                /\ \E k \in DOMAIN val.items : val.items[k].t \notin {"num", "str"}
             THEN Rejected
             ELSE IF parsed_val = <<>> THEN Rejected
             ELSE Returned("array", parsed_val)
    ELSE IF multiple /\ val.t = "range"
    THEN LET start == JsonNumber(val.items[1].num)
             step == JsonNumber(val.items[2].num)
             stop == JsonNumber(val.items[3].num)
             parsed_val == ARange(start, FAdd(stop, step), step)
         IN  IF parsed_val = <<>> THEN Rejected
             ELSE Returned("array", [k \in DOMAIN parsed_val |-> JNum(parsed_val[k])])
    ELSE IF val.t = "compound"
    THEN IF ValidateInputRaises(val.cv.params, val.cv.operations) THEN Rejected
         ELSE Wrapped(CvObj(val.cv), single_str)
    ELSE IF val.t \in {"dict", "range"} THEN Rejected
    ELSE IF val.t = "null" THEN Returned("None", <<>>)
    ELSE Rejected

\* isinstance(self._process_value(val), CompoundVar)
IsCompoundVar(returned) ==
    ~returned.raised /\ returned.kind = "single" /\ returned.items[1].t = "cvobj"

----------------------------------------------------------------------------
(* The specification files of the model.  A report is [name, part]; a part *)
(* is [top, groups]: top maps the keys of the report's dictionary other    *)
(* than "groups" to their values, and groups is [present, isList, list],   *)
(* the value of the key "groups", each element of the list mapping its     *)
(* keys to their values.                                                   *)

\* k tenths, as the decimal written in the file
Dec(k) == Frac(k, 10)

PvCompound == JCompound(<<Name("model.q"), Lit(2)>>, <<"*">>, None)

\* dict without the key
Without(dict, key) == [x \in DOMAIN dict \ {key} |-> dict[x]]

NoGroups == [present |-> FALSE, isList |-> FALSE, list |-> <<>>]
GroupsList(list) == [present |-> TRUE, isList |-> TRUE, list |-> list]
GroupsNotList == [present |-> TRUE, isList |-> FALSE, list |-> <<>>]

Entry(name, top, groups) == [name |-> name, part |-> [top |-> top, groups |-> groups]]

\* the dictionary with the key set to the value
With(dict, key, val) == (key :> val) @@ dict

\* the parameters every report of the model starts from
Fixed ==
    ("net.net_type" :> JStr("BA")) @@ ("net.size" :> JNum(Num(50))) @@
    ("method.mc_runs" :> JNum(Num(10))) @@ ("model.x" :> JNum(Dec(5))) @@
    ("model.q" :> JNum(Num(2))) @@ ("model.eps" :> JNum(Dec(1))) @@
    ("net.k" :> JNum(Num(3))) @@ ("plot.vals" :> JStr("exit_proba"))

NumList(ks) == JList([i \in DOMAIN ks |-> JNum(Num(ks[i]))])
DecList(ks) == JList([i \in DOMAIN ks |-> JNum(Dec(ks[i]))])

SweepX(ks) == With(With(Fixed, "plot.args", JStr("model.x")), "model.x", DecList(ks))
SweepQ(ks) == With(With(Fixed, "plot.args", JStr("model.q")), "model.q", NumList(ks))

\* one element of a "groups" list
Group(qs, net_type) == ("model.q" :> NumList(qs)) @@ ("net.net_type" :> JStr(net_type))

\* the top level of a report with a "groups" section over model.q and
\* net.net_type
GroupedTop ==
    With(With(Without(Without(Fixed, "model.q"), "net.net_type"),
              "plot.args", JStr("model.q")), "plot.group", JStr("net.net_type"))

Sweep == Entry(<<"a">>, SweepX(<<1, 2>>), NoGroups)
SweepOverlapping == Entry(<<"b">>, SweepX(<<2, 3>>), NoGroups)
SweepBadName == Entry(<<"a", "-", "b">>, SweepX(<<1, 2>>), NoGroups)
Grouped == Entry(<<"a", "b">>, GroupedTop, GroupsList(<<Group(<<1, 2>>, "BA"), Group(<<3>>, "WS")>>))
GroupedOverlapping ==
    Entry(<<"b", "a">>, GroupedTop, GroupsList(<<Group(<<1, 2>>, "BA"), Group(<<2, 3>>, "BA")>>))
GroupList ==
    Entry(<<"1", "a">>,
          With(With(With(Without(SweepQ(<<1, 2, 3>>), "net.k"),
                         "model.q", JRange(Num(1), Num(1), Num(3))),
                    "plot.group", JStr("net.net_type")),
               "net.net_type", JList(<<JStr("WS"), JStr("BA")>>)),
          NoGroups)
CompoundArgs == Entry(<<"b", "1">>, With(SweepQ(<<1, 2>>), "plot.args", PvCompound), NoGroups)
CompoundCell ==
    Entry(<<"1", "2">>,
          With(SweepQ(<<2, 4>>), "net.size", JCompound(<<Name("q"), Lit(25)>>, <<"*">>, None)),
          NoGroups)
CompoundZeroDivision ==
    Entry(<<"2", "1">>,
          With(SweepQ(<<0, 2>>), "model.eps", JCompound(<<Lit(1), Name("q")>>, <<"/">>, None)),
          NoGroups)
CompoundAbsentName ==
    Entry(<<"2", "2">>,
          With(SweepQ(<<1, 2>>), "net.size", JCompound(<<Name("model.q"), Lit(25)>>, <<"*">>, None)),
          NoGroups)
MissingKey == Entry(<<"a", "1">>, Without(SweepX(<<1, 2>>), "model.eps"), NoGroups)
MissingAndInvalid ==
    Entry(<<"1", "b">>, With(Without(SweepX(<<1, 2>>), "model.eps"), "model.q", NumList(<<1, 2>>)),
          NoGroups)
NullValue == Entry(<<"2", "a">>, With(SweepX(<<1, 2>>), "model.eps", JNull), NoGroups)
SameKey == Entry(<<"a", "2">>, With(SweepX(<<1, 2>>), "plot.group", JStr("model.x")), NoGroups)
GroupsNoKey ==
    Entry(<<"b", "2">>, Without(GroupedTop, "plot.group"), GroupsList(<<Group(<<1, 2>>, "BA")>>))
GroupsTopArg ==
    Entry(<<"1">>, With(GroupedTop, "model.q", JNum(Num(2))), GroupsList(<<Group(<<1, 2>>, "BA")>>))
GroupsTopGroup ==
    Entry(<<"2">>, With(GroupedTop, "net.net_type", JStr("BA")), GroupsList(<<Group(<<1, 2>>, "BA")>>))
GroupsNotAList == Entry(<<"1", "1">>, GroupedTop, GroupsNotList)
GroupsElementWithoutArg ==
    Entry(<<"2", "b">>, GroupedTop,
          GroupsList(<<Group(<<1, 2>>, "BA"), Without(Group(<<3>>, "WS"), "model.q")>>))

\* the reports parse_req accepts
AcceptedEntries ==
    {Sweep, SweepOverlapping, SweepBadName, Grouped, GroupedOverlapping, GroupList, CompoundCell}

Entries ==
    AcceptedEntries \cup
    {CompoundArgs, CompoundZeroDivision, CompoundAbsentName, MissingKey, MissingAndInvalid,
     NullValue, SameKey, GroupsNoKey, GroupsTopArg, GroupsTopGroup, GroupsNotAList,
     GroupsElementWithoutArg}

\* the values of the reports, and the defaults of part_spec.get
EntryValues(e) ==
    Range(e.part.top) \cup UNION {Range(e.part.groups.list[k]) : k \in DOMAIN e.part.groups.list}

SmValues == UNION {EntryValues(e) : e \in Entries} \cup {JNull, JStr(""), JStr("linear")}

\* self._process_value(val, multiple, single_str) on the values of the
\* reports, each computed once
Processed ==
    [val \in SmValues, multiple \in BOOLEAN, single_str \in BOOLEAN |->
        ProcessValue(val, multiple, single_str)]

----------------------------------------------------------------------------
(* SpecManager: _parse_req_part.  pv is the table of _process_value:       *)
(* pv[val, multiple, single_str] is what the call returns or raises.       *)

MandatoryParamKeys ==
    {"net.net_type", "net.size", "method.mc_runs", "model.x", "model.q", "model.eps"}

\* the keys of the model in the order the columns are laid out.  The code
\* iterates a set of strings, whose order changes from process to process;
\* nothing below reads the order of the columns.
KeyOrder ==
    <<"net.net_type", "net.size", "method.mc_runs", "model.x", "model.q", "model.eps",
      "net.k", "net.beta">>

\* param.split(".")[-1] on the keys of the model
DropParamPrefix(param) ==
    CASE param = "net.net_type" -> "net_type"
      [] param = "net.size" -> "size"
      [] param = "method.mc_runs" -> "mc_runs"
      [] param = "model.x" -> "x"
      [] param = "model.q" -> "q"
      [] param = "model.eps" -> "eps"
      [] param = "net.k" -> "k"
      [] param = "net.beta" -> "beta"
      [] OTHER -> param

\* "net." in param_key, on the keys of the model
HasNetPrefix(param_key) == param_key \in {"net.net_type", "net.size", "net.k", "net.beta"}

\* what _parse_req_part ends with: the exception it raises (exc, "" for
\* none; key is the key of a KeyError), or the table it returns and the
\* pre-covered keys; groups is the "groups" list as the call leaves it
\* (group.pop removes keys from the dictionaries of self.spec)
PartResult(exc, key, table, covered, groups) ==
    [exc |-> exc, key |-> key, table |-> table, covered |-> covered, groups |-> groups]
PartRaises(exc, key, groups) == PartResult(exc, key, EmptyTable, {}, groups)

\* lines 196-208 for the k-th element of "groups", the plot arguments
\* popped and processed
GroupElement(pv, plot_main_var, plot_group, st, k, popped_main, main_vals) ==
    IF main_vals.raised
    THEN [st EXCEPT !.exc = "SpecificationError", !.list[k] = popped_main]
    ELSE IF plot_group \notin DOMAIN popped_main
    THEN [st EXCEPT !.exc = "KeyError", !.key = plot_group, !.list[k] = popped_main]
    ELSE IF pv[popped_main[plot_group], TRUE, FALSE].raised
    THEN [st EXCEPT !.exc = "SpecificationError", !.list[k] = Without(popped_main, plot_group)]
    ELSE [st EXCEPT !.list[k] = Without(popped_main, plot_group),
                    !.chunks = Append(@, [keys |-> <<plot_main_var, plot_group>>,
                                          vals |-> <<main_vals,
                                                     pv[popped_main[plot_group],
                                                                  TRUE, FALSE]>>])]

\* the loop over the elements of "groups": st is [exc, key, chunks, list]
RECURSIVE GroupsLoop(_, _, _, _, _)
GroupsLoop(pv, plot_main_var, plot_group, st, k) ==
    IF k > Len(st.list) \/ st.exc # "" THEN st
    ELSE IF plot_main_var \notin DOMAIN st.list[k]
    THEN [st EXCEPT !.exc = "KeyError", !.key = plot_main_var]
    ELSE GroupsLoop(pv, plot_main_var, plot_group,
                    GroupElement(pv, plot_main_var, plot_group, st, k,
                                 Without(st.list[k], plot_main_var),
                                 pv[st.list[k][plot_main_var], TRUE, FALSE]),
                    k + 1)

\* itertools.product of the arrays, as rows over the cleansed column names:
\* the first column changes slowest
RECURSIVE Product(_, _)
Product(cols, arrays) ==
    IF cols = <<>> THEN << [c \in {} |-> JNull] >>
    ELSE LET rest == Product(Tail(cols), Tail(arrays))
             first == Head(arrays)
         IN  [i \in 1..(Len(first) * Len(rest)) |->
                 LET a == first[((i - 1) \div Len(rest)) + 1]
                     r == rest[((i - 1) % Len(rest)) + 1]
                 IN  [c \in DOMAIN r \cup {Head(cols)} |-> IF c = Head(cols) THEN a ELSE r[c]]]

\* _param_cart(param_dict), the dictionary given as its keys and values
ParamCart(keys, vals) ==
    LET cols == [k \in DOMAIN keys |-> DropParamPrefix(keys[k])]
    IN  Table(cols, Product(cols, [k \in DOMAIN vals |-> vals[k].items]))

\* a missing cell of a requirement table (np.nan)
JNaN == JVal("nan", Num(0), "", <<>>, NoCv)

\* pd.concat([a, b], ignore_index=True) of two requirement tables
ConcatReq(a, b) ==
    LET cols == a.cols \o ColsMinus(b.cols, a.cols)
        fill(row) == [c \in Range(cols) |-> IF c \in DOMAIN row THEN row[c] ELSE JNaN]
    IN  Table(cols, [k \in 1..(Len(a.rows) + Len(b.rows)) |->
                        IF k <= Len(a.rows) THEN fill(a.rows[k])
                        ELSE fill(b.rows[k - Len(a.rows)])])

\* pd.concat(tables, ignore_index=True)
RECURSIVE ConcatAll(_)
ConcatAll(tables) ==
    IF Len(tables) = 1 THEN tables[1]
    ELSE ConcatReq(ConcatAll(SubSeq(tables, 1, Len(tables) - 1)), tables[Len(tables)])

\* self.main of the CompoundVar in a cell; a number is no key of a dictionary
CvMain(cell) == cell.cv.params[1].name

\* lines 253-263 of _parse_req_part: the products of the chunks, glued
PartTable(keys, vals, chunks, pre_covered_param_keys, groups) ==
    IF \/ \E k \in DOMAIN vals : vals[k].kind = "None"
       \/ \E c \in DOMAIN chunks : \E k \in DOMAIN chunks[c].vals :
              chunks[c].vals[k].kind = "None"
    THEN PartRaises("TypeError", "", groups)
    ELSE PartResult("", "",
                    ConcatAll([c \in DOMAIN chunks |->
                                  ParamCart(keys \o chunks[c].keys, vals \o chunks[c].vals)]),
                    {DropParamPrefix(k) : k \in pre_covered_param_keys}, groups)

\* LeftMandatoryRaises with the KeyError of a missing key taken for any
\* other failure: the key is not named
LeftMandatoryRaisesUnnamed(rest, failing, first, groups) ==
    PartRaises("SpecificationError", "", groups)

\* the exception of the comprehension over the left mandatory keys, of
\* which the keys failing fail
LeftMandatoryRaises(rest, failing, first, groups) ==
    IF (IF first \in failing THEN first ELSE CHOOSE k \in failing : TRUE) \notin DOMAIN rest
    THEN PartRaises("KeyError", IF first \in failing THEN first ELSE CHOOSE k \in failing : TRUE,
                    groups)
    ELSE PartRaises("SpecificationError", "", groups)

\* the values of the keys, each processed as a single value
SingleValues(pv, rest, keys) == [k \in DOMAIN keys |-> pv[rest[keys[k]], FALSE, FALSE]]

\* lines 233-263 of _parse_req_part: rest is part_spec after the pops,
\* chunks is all_plot_rel_params.  The comprehension over the set of the
\* left mandatory keys runs in an order that changes from process to
\* process: when several of these keys fail, the one met first is the key
\* named first when it is one of them, and some other one otherwise.
FinishPart(pv, rest, pre_covered_param_keys, chunks, groups, first) ==
    LET left == MandatoryParamKeys \ pre_covered_param_keys
        net_keys == {k \in DOMAIN rest \ left : HasNetPrefix(k)}
        keys == SelectSeq(KeyOrder, LAMBDA k : k \in left \cup net_keys)
    IN  IF \E k \in left : k \notin DOMAIN rest \/ pv[rest[k], FALSE, FALSE].raised
        THEN LeftMandatoryRaises(
                 rest,
                 {k \in left : \/ k \notin DOMAIN rest
                               \/ pv[rest[k], FALSE, FALSE].raised},
                 first, groups)
        ELSE IF \E k \in net_keys : pv[rest[k], FALSE, FALSE].raised
        THEN PartRaises("SpecificationError", "", groups)
        ELSE PartTable(keys, SingleValues(pv, rest, keys), chunks, pre_covered_param_keys, groups)

\* the arrays of the chunks for the k-th key, one after the other
RECURSIVE AllItems(_, _)
AllItems(chunks, k) ==
    IF chunks = <<>> THEN <<>>
    ELSE AllItems(SubSeq(chunks, 1, Len(chunks) - 1), k) \o chunks[Len(chunks)].vals[k].items

\* lines 192-209 with one product for all the elements of "groups": every
\* argument value of the section with every group value of the section
AfterGroupsLoopCrossed(pv, rest, plot_main_var, plot_group, st, first) ==
    IF st.exc # "" THEN PartRaises(st.exc, st.key, GroupsList(st.list))
    ELSE FinishPart(pv, rest, {plot_main_var, plot_group},
                    << [keys |-> <<plot_main_var, plot_group>>,
                        vals |-> <<Returned("array", AllItems(st.chunks, 1)),
                                   Returned("array", AllItems(st.chunks, 2))>>] >>,
                    GroupsList(st.list), first)

\* lines 192-209: the loop is over
AfterGroupsLoop(pv, rest, plot_main_var, plot_group, st, first) ==
    IF st.exc # "" THEN PartRaises(st.exc, st.key, GroupsList(st.list))
    ELSE FinishPart(pv, rest, {plot_main_var, plot_group}, st.chunks, GroupsList(st.list), first)

\* lines 173-209 without the check of lines 183-186: the argument and
\* group keys may be given outside the "groups" section too
PartWithGroupsTopLevelAllowed(pv, rest, plot_main_var, has_group, plot_group, groups, first) ==
    IF IsCompoundVar(pv[JStr(plot_main_var), FALSE, FALSE])
    THEN PartRaises("SpecificationError", "", groups)
    ELSE IF ~has_group THEN PartRaises("SpecificationError", "", groups)
    ELSE IF ~groups.isList \/ groups.list = <<>>
    THEN PartRaises("SpecificationError", "", groups)
    ELSE AfterGroupsLoop(pv, rest, plot_main_var, plot_group,
                         GroupsLoop(pv, plot_main_var, plot_group,
                                    [exc |-> "", key |-> "", chunks |-> <<>>,
                                     list |-> groups.list], 1),
                         first)

\* lines 173-209: the "groups" section exists
PartWithGroups(pv, rest, plot_main_var, has_group, plot_group, groups, first) ==
    IF IsCompoundVar(pv[JStr(plot_main_var), FALSE, FALSE])
    THEN PartRaises("SpecificationError", "", groups)
    ELSE IF ~has_group THEN PartRaises("SpecificationError", "", groups)
    ELSE IF plot_main_var \in DOMAIN rest \/ plot_group \in DOMAIN rest
    THEN PartRaises("SpecificationError", "", groups)
    ELSE IF ~groups.isList \/ groups.list = <<>>
    THEN PartRaises("SpecificationError", "", groups)
    ELSE AfterGroupsLoop(pv, rest, plot_main_var, plot_group,
                         GroupsLoop(pv, plot_main_var, plot_group,
                                    [exc |-> "", key |-> "", chunks |-> <<>>,
                                     list |-> groups.list], 1),
                         first)

\* lines 218-232: the grouping variable outside a "groups" section
WithGroupKey(pv, popped_main, plot_main_var, plot_group, main_vals, group_vals, first) ==
    IF group_vals.raised THEN PartRaises("SpecificationError", "", NoGroups)
    ELSE IF main_vals.kind = "None" \/ group_vals.kind = "None"
    THEN PartRaises("AttributeError", "", NoGroups)
    ELSE FinishPart(pv, Without(popped_main, plot_group), {plot_main_var, plot_group},
                    << [keys |-> <<plot_main_var, plot_group>>,
                        vals |-> <<main_vals, group_vals>>] >>,
                    NoGroups, first)

\* lines 212-232: the plot arguments are processed
WithMainVals(pv, popped_main, plot_main_var, has_group, plot_group, main_vals, first) ==
    IF main_vals.raised THEN PartRaises("SpecificationError", "", NoGroups)
    ELSE IF ~has_group
    THEN IF main_vals.kind = "None" THEN PartRaises("AttributeError", "", NoGroups)
         ELSE FinishPart(pv, popped_main, {plot_main_var},
                         << [keys |-> <<plot_main_var>>, vals |-> <<main_vals>>] >>,
                         NoGroups, first)
    ELSE IF plot_group \notin DOMAIN popped_main
    THEN PartRaises("KeyError", plot_group, NoGroups)
    ELSE WithGroupKey(pv, popped_main, plot_main_var, plot_group, main_vals,
                      pv[popped_main[plot_group], TRUE, FALSE], first)

\* lines 210-232: no "groups" section
PartWithoutGroups(pv, rest, plot_main_var, has_group, plot_group, first) ==
    IF plot_main_var \notin DOMAIN rest THEN PartRaises("KeyError", plot_main_var, NoGroups)
    ELSE WithMainVals(pv, Without(rest, plot_main_var), plot_main_var, has_group, plot_group,
                      pv[rest[plot_main_var], TRUE, FALSE], first)

\* lines 159-264: plot_main_var is known
AfterPlotArgs(pv, popped_args, groups, plot_main_var, first) ==
    LET has_group == "plot.group" \in DOMAIN popped_args
        plot_group == IF has_group THEN popped_args["plot.group"].str ELSE ""
        rest == Without(popped_args, "plot.group")
    IN  IF has_group /\ popped_args["plot.group"].t # "str"
        THEN PartRaises("SpecificationError", "", groups)
        ELSE IF has_group /\ plot_main_var = plot_group
        THEN PartRaises("SpecificationError", "", groups)
        ELSE IF groups.present
        THEN PartWithGroups(pv, rest, plot_main_var, has_group, plot_group, groups, first)
        ELSE PartWithoutGroups(pv, rest, plot_main_var, has_group, plot_group, first)

\* lines 153-158: plot.args is no string; processed is
\* self._process_value(plot_args)
CompoundPlotArgs(pv, part_spec, processed, first) ==
    IF processed.raised THEN PartRaises("SpecificationError", "", part_spec.groups)
    ELSE IF ~IsCompoundVar(processed) THEN PartRaises("SpecificationError", "", part_spec.groups)
    ELSE AfterPlotArgs(pv, Without(part_spec.top, "plot.args"), part_spec.groups,
                       CvMain(processed.items[1]), first)

\* _parse_req_part(part_spec)
ParseReqPart(pv, part_spec, first) ==
    IF "plot.args" \notin DOMAIN part_spec.top
    THEN PartRaises("KeyError", "plot.args", part_spec.groups)
    ELSE IF part_spec.top["plot.args"].t = "str"
    THEN AfterPlotArgs(pv, Without(part_spec.top, "plot.args"), part_spec.groups,
                       part_spec.top["plot.args"].str, first)
    ELSE CompoundPlotArgs(pv, part_spec, pv[part_spec.top["plot.args"], FALSE, FALSE], first)

----------------------------------------------------------------------------
(* SpecManager: parse_req.  self.spec is a list of [name, part], in the    *)
(* order of the file.                                                      *)

\* the names a compound cell refers to
NamesOf(cv) == {cv.params[k].name : k \in {j \in DOMAIN cv.params : IsStr(cv.params[j])}}

\* the cell for what eval returned, or its exception
Evaluated(r, value) ==
    IF r.kind = "ok" THEN [exc |-> "", cell |-> JNum(JsonNumber(r.val))]
    ELSE IF r.kind = "name" THEN [exc |-> "Unmodelled", cell |-> value]
    ELSE [exc |-> r.kind, cell |-> value]

\* the cells of the row that hold integers, as the data of eval
IntData(rowdict) ==
    [c \in {d \in DOMAIN rowdict : rowdict[d].t = "num" /\ IsInt(rowdict[d].num)} |->
        rowdict[c].num.n]

\* assure_direct_params(rowdict, value): the cell, or the exception of eval.
\* eval is modelled on integers: a compound cell that refers to a cell
\* holding anything else is left out ("Unmodelled").
AssureDirectParams(rowdict, value) ==
    IF value.t # "cvobj" THEN [exc |-> "", cell |-> value]
    ELSE IF \E c \in NamesOf(value.cv) \cap DOMAIN rowdict : c \notin DOMAIN IntData(rowdict)
    THEN [exc |-> "Unmodelled", cell |-> value]
    ELSE Evaluated(Eval(value.cv.params, value.cv.operations, value.cv.order.list,
                        IntData(rowdict)),
                   value)

\* the table of the cells, or the exception of the first cell that has one
Replaced(part_req, done) ==
    LET failing == {n \in DOMAIN done : done[n].exc # ""}
    IN  IF failing # {}
        THEN [exc |-> done[CHOOSE n \in failing : \A m \in failing : n <= m].exc,
              table |-> EmptyTable]
        ELSE [exc |-> "",
              table |-> Table(part_req.cols,
                              [k \in DOMAIN part_req.rows |->
                                  [c \in DOMAIN part_req.rows[k] |->
                                      done[(k - 1) * Len(part_req.cols)
                                           + (CHOOSE j \in DOMAIN part_req.cols :
                                                  part_req.cols[j] = c)].cell]])]

\* _replace_compound_vals(part_req): the table with the compound cells
\* evaluated, or the exception of the first cell that fails
ReplaceCompoundVals(part_req) ==
    Replaced(part_req,
             [n \in 1..(Len(part_req.rows) * Len(part_req.cols)) |->
                 AssureDirectParams(
                     part_req.rows[((n - 1) \div Len(part_req.cols)) + 1],
                     part_req.rows[((n - 1) \div Len(part_req.cols)) + 1]
                                  [part_req.cols[((n - 1) % Len(part_req.cols)) + 1]])])

\* what parse_req ends with: exc is the exception raised ("" for none),
\* plot and key what the message of a SpecificationError names; parts is
\* part_req_dict, full the table of the non plot specific mode, and spec
\* is self.spec as the call leaves it
ReqResult(exc, plot, key, parts, full, spec) ==
    [exc |-> exc, plot |-> plot, key |-> key, parts |-> parts, full |-> full, spec |-> spec]

NoPlot == <<>>

\* lines 343-351, st being the state of the loop with the report's groups
\* as _parse_req_part left them: the report's table with its compound
\* values replaced, or the exception
ReportReplaced(st, plot_name, replaced) ==
    IF replaced.exc = "SpecificationError"
    THEN ReqResult("SpecificationError", plot_name, "", <<>>, EmptyTable, st.spec)
    ELSE IF replaced.exc # ""
    THEN ReqResult(replaced.exc, NoPlot, "", <<>>, EmptyTable, st.spec)
    ELSE [st EXCEPT !.parts = Append(@, [name |-> plot_name, table |-> replaced.table])]

\* lines 338-351 for the k-th report, part being what _parse_req_part ends
\* with
ReportParsed(st, k, part) ==
    LET plot_name == st.spec[k].name
        left == [st.spec EXCEPT ![k].part.groups = part.groups]
    IN  IF part.exc = "KeyError"
        THEN ReqResult("SpecificationError", plot_name, part.key, <<>>, EmptyTable, left)
        ELSE IF part.exc = "SpecificationError"
        THEN ReqResult("SpecificationError", plot_name, "", <<>>, EmptyTable, left)
        ELSE IF part.exc # ""
        THEN ReqResult(part.exc, NoPlot, "", <<>>, EmptyTable, left)
        ELSE ReportReplaced([st EXCEPT !.spec = left], plot_name, ReplaceCompoundVals(part.table))

\* the loop of parse_req from the k-th report on
RECURSIVE ParseReqLoop(_, _, _, _)
ParseReqLoop(pv, st, first, k) ==
    IF k > Len(st.spec) \/ st.exc # "" THEN st
    ELSE ParseReqLoop(pv, ReportParsed(st, k, ParseReqPart(pv, st.spec[k].part, first)), first, k + 1)

\* lines 352-358 without drop_duplicates
ReturnedReqKeepDuplicates(st, plot_specific, full_req) ==
    IF st.exc # "" \/ plot_specific THEN st
    ELSE [st EXCEPT !.parts = <<>>,
                    !.full = ReplaceCompoundVals(full_req).table]

\* lines 352-358: what parse_req returns after the loop
ReturnedReq(st, plot_specific, full_req) ==
    IF st.exc # "" \/ plot_specific THEN st
    ELSE [st EXCEPT !.parts = <<>>,
                    !.full = ReplaceCompoundVals(
                                 Table(full_req.cols, DropDuplicates(full_req.rows))).table]

\* pd.concat(part_req_dict.values(), ignore_index=True)
FullReq(st) == ConcatAll([k \in DOMAIN st.parts |-> st.parts[k].table])

\* the loop of parse_req is over
AfterReqLoop(st, plot_specific) == ReturnedReq(st, plot_specific, FullReq(st))

\* parse_req(plot_specific)
ParseReq(pv, spec, plot_specific, first) ==
    AfterReqLoop(ParseReqLoop(pv, ReqResult("", NoPlot, "", <<>>, EmptyTable, spec), first, 1),
                 plot_specific)

\* plot_name.isalnum(), a name being the list of its characters
AlnumChars == {"a", "b", "1", "2"}
IsAlnum(plot_name) ==
    plot_name # <<>> /\ \A k \in DOMAIN plot_name : plot_name[k] \in AlnumChars

\* CompoundVar.transform_names(self._drop_param_prefix) on a cell; a
\* number has no split
TransformNames(cell) ==
    [cell EXCEPT !.cv.params = [k \in DOMAIN @ |-> Name(DropParamPrefix(@[k].name))]]

\* what _parse_visual_part ends with
VisualResult(exc, key, visual) == [exc |-> exc, key |-> key, visual |-> visual]
NoVisual == [args |-> JNull, group |-> JNull, vals |-> JNull]

\* part_spec.get(key, default)
Get(dict, key, default) == IF key \in DOMAIN dict THEN dict[key] ELSE default

\* bool(value) of what _process_value returned with single_str
Truthy(returned) ==
    /\ returned.kind # "None"
    /\ returned.items[1] \notin {JStr(""), JNum(Num(0))}

\* lines 392-408 of _parse_visual_part
VisualNames(plot_args, plot_group, plot_vals) ==
    IF plot_args.kind = "None" THEN VisualResult("AttributeError", "", NoVisual)
    ELSE IF plot_args.items[1].t = "num" THEN VisualResult("AttributeError", "", NoVisual)
    ELSE IF /\ plot_args.items[1].t = "cvobj"
            /\ \E k \in DOMAIN plot_args.items[1].cv.params :
                   ~IsStr(plot_args.items[1].cv.params[k])
    THEN VisualResult("AttributeError", "", NoVisual)
    ELSE IF Truthy(plot_group) /\ plot_group.items[1].t # "str"
    THEN VisualResult("AttributeError", "", NoVisual)
    ELSE VisualResult("", "",
             [args |-> IF plot_args.items[1].t = "cvobj" THEN TransformNames(plot_args.items[1])
                       ELSE JStr(DropParamPrefix(plot_args.items[1].str)),
              group |-> IF Truthy(plot_group)
                        THEN JStr(DropParamPrefix(plot_group.items[1].str)) ELSE JNull,
              vals |-> plot_vals.items[1]])

\* lines 378-408 of _parse_visual_part
VisualScales(plot_args, plot_group, plot_vals, desc_info, x_ax_scale, y_ax_scale) ==
    IF desc_info.raised \/ x_ax_scale.raised \/ y_ax_scale.raised
    THEN VisualResult("SpecificationError", "", NoVisual)
    ELSE IF \/ x_ax_scale.kind = "None"
            \/ x_ax_scale.items[1] \notin {JStr("linear"), JStr("log")}
    THEN VisualResult("SpecificationError", "", NoVisual)
    ELSE VisualNames(plot_args, plot_group, plot_vals)

\* lines 372-408 of _parse_visual_part
VisualVals(pv, top, plot_args, plot_group, plot_vals) ==
    IF plot_vals.raised THEN VisualResult("SpecificationError", "", NoVisual)
    ELSE IF /\ ~IsCompoundVar(plot_vals)
            /\ \/ plot_vals.kind = "None"
               \/ plot_vals.items[1] \notin {JStr("exit_proba"), JStr("avg_exit_time")}
    THEN VisualResult("SpecificationError", "", NoVisual)
    ELSE VisualScales(plot_args, plot_group, plot_vals,
                      pv[Get(top, "plot.desc_info", JStr("")), FALSE, TRUE],
                      pv[Get(top, "plot.x_ax_scale", JStr("linear")), FALSE, TRUE],
                      pv[Get(top, "plot.y_ax_scale", JStr("linear")), FALSE, TRUE])

\* lines 370-408 of _parse_visual_part
VisualArgs(pv, top, plot_args, plot_group) ==
    IF plot_args.raised \/ plot_group.raised
    THEN VisualResult("SpecificationError", "", NoVisual)
    ELSE IF "plot.vals" \notin DOMAIN top THEN VisualResult("KeyError", "plot.vals", NoVisual)
    ELSE VisualVals(pv, top, plot_args, plot_group, pv[top["plot.vals"], FALSE, TRUE])

\* _parse_visual_part(part_spec)
ParseVisualPart(pv, part_spec) ==
    IF "plot.args" \notin DOMAIN part_spec.top
    THEN VisualResult("KeyError", "plot.args", NoVisual)
    ELSE VisualArgs(pv, part_spec.top,
                    pv[part_spec.top["plot.args"], FALSE, TRUE],
                    pv[Get(part_spec.top, "plot.group", JNull), FALSE, TRUE])

\* lines 437-446 for the report plot_name, part being what
\* _parse_visual_part ends with: st is [exc, plot, key, parts]
VisualParsed(st, plot_name, part) ==
    IF part.exc = "KeyError"
    THEN [st EXCEPT !.exc = "SpecificationError", !.plot = plot_name,
                    !.key = part.key, !.parts = <<>>]
    ELSE IF part.exc = "SpecificationError"
    THEN [st EXCEPT !.exc = "SpecificationError", !.plot = plot_name, !.parts = <<>>]
    ELSE IF part.exc # "" THEN [st EXCEPT !.exc = part.exc, !.parts = <<>>]
    ELSE [st EXCEPT !.parts = Append(@, [name |-> plot_name, visual |-> part.visual])]

\* the loop of parse_visual from the k-th report on
RECURSIVE ParseVisualLoop(_, _, _, _)
ParseVisualLoop(pv, spec, st, k) ==
    IF k > Len(spec) \/ st.exc # "" THEN st
    ELSE IF ~IsAlnum(spec[k].name)
    THEN [st EXCEPT !.exc = "SpecificationError", !.plot = spec[k].name, !.parts = <<>>]
    ELSE ParseVisualLoop(pv, spec, VisualParsed(st, spec[k].name, ParseVisualPart(pv, spec[k].part)),
                         k + 1)

\* parse_visual()
ParseVisual(pv, spec) ==
    ParseVisualLoop(pv, spec, [exc |-> "", plot |-> NoPlot, key |-> "", parts |-> <<>>], 1)

----------------------------------------------------------------------------
(* The state machine of _process_value: the arguments of one call, then    *)
(* what the call returns.                                                  *)

\* the range descriptors of the model, in tenths
RangeStarts == {0, 1, 10}
RangeSteps == {1, 2, 10}
RangeStops == {2, 3, 5, 10, 20, 30}

PvRanges == {JRange(Dec(a), Dec(s), Dec(b)) : a \in RangeStarts, s \in RangeSteps, b \in RangeStops}

PvValues ==
    PvRanges \cup
    { JRange(Num(0), Num(2), Num(5)),
      JNum(Num(3)), JNum(Dec(1)), JStr("model.x"), JStr("BA"),
      JList(<<JNum(Num(2)), JNum(Num(1)), JNum(Num(2))>>),
      JList(<<JStr("WS"), JStr("BA")>>),
      JList(<<>>), JList(<<JDict>>), JList(<<JDict, JNum(Num(1))>>),
      PvCompound,
      JCompound(<<Name("model.q")>>, <<"*">>, None),
      JCompound(<<Name("model.q"), Lit(2)>>, <<"+">>, None),
      JCompound(<<Name("model.q"), Lit(2), Lit(3)>>, <<"*", "/">>, ListArg(<<1, 0>>)),
      JDict, JNull }

PvArgs ==
    /\ smSpec = <<>>
    /\ \E val \in PvValues, multiple \in BOOLEAN, single_str \in BOOLEAN :
           smCall = [op |-> "args", val |-> val, multiple |-> multiple,
                     single_str |-> single_str, returned |-> Rejected]

\* SpecManager._process_value(val, multiple, single_str)
ProcessValueCall ==
    /\ smCall.op = "args"
    /\ smCall' = [smCall EXCEPT !.op = "process_value",
                                !.returned = ProcessValue(smCall.val, smCall.multiple,
                                                          smCall.single_str)]
    /\ UNCHANGED <<smSpec, cvVars, dmVars, rnVars>>

PvNext == ProcessValueCall

----------------------------------------------------------------------------
(* _process_value: claims.                                                 *)

\* the call returned the expansion of a range descriptor
RangeExpanded ==
    /\ smCall.op = "process_value"
    /\ smCall.val.t = "range"
    /\ smCall.multiple
    /\ ~smCall.returned.raised

\* stop - start is a whole number of steps, on the decimals as written and
\* on the floats read from them
ExactMultiple(val) ==
    LET start == val.items[1].num
        step == val.items[2].num
        stop == val.items[3].num
    IN  /\ IsInt(TrueDiv(Sub(stop, start), step).val)
        /\ IsInt(TrueDiv(Sub(JsonNumber(stop), JsonNumber(start)), JsonNumber(step)).val)

\* C12: the domain of a range {start, step, stop} is never empty and starts
\* at start, and its last element is stop when stop - start is an exact
\* multiple of step.
C12_RangeIncludesStop ==
    RangeExpanded =>
        LET items == smCall.returned.items
        IN  /\ items # <<>>
            /\ items[1] = JNum(JsonNumber(smCall.val.items[1].num))
            /\ ExactMultiple(smCall.val) =>
                   items[Len(items)] = JNum(JsonNumber(smCall.val.items[3].num))

\* the expansion of {start: 0, step: 0.1, stop: 0.2}
C12_TenthsExpanded ==
    /\ RangeExpanded
    /\ smCall.val = JRange(Dec(0), Dec(1), Dec(2))

\* C23: every element of the domain expanded from a range {start, step,
\* stop} lies between start and stop inclusive, also when stop - start is
\* not a multiple of step.
C23_RangeWithinBounds ==
    RangeExpanded =>
        \A i \in DOMAIN smCall.returned.items :
            /\ ~Less(smCall.returned.items[i].num, JsonNumber(smCall.val.items[1].num))
            /\ ~Less(JsonNumber(smCall.val.items[3].num), smCall.returned.items[i].num)

\* the expansion of {start: 0, step: 2, stop: 5}
C23_TwosUpToFiveExpanded ==
    /\ RangeExpanded
    /\ smCall.val = JRange(Num(0), Num(2), Num(5))
    /\ smCall.returned.items = <<JNum(Num(0)), JNum(Num(2)), JNum(Num(4)), JNum(Num(6))>>

----------------------------------------------------------------------------
(* The SpecManager state machine: a specification file is loaded, then     *)
(* parse_req and parse_visual are called on it.                            *)

\* the files of the model: one report, or one of three accepted reports
\* and another report after it
SmSpecs ==
    {<<e>> : e \in Entries} \cup
    UNION {{<<first, second>> : second \in Entries \ {first}} : first \in {Sweep, Grouped, GroupList}}

\* the left mandatory keys that come first, in the orders of the model
FirstKeys == {"model.q", "model.eps"}

SmInit ==
    /\ smSpec \in SmSpecs
    /\ smCall = [op |-> "none"]

\* parse_req(plot_specific); first is the mandatory key the set of the
\* left mandatory keys yields first
ParseReqCall ==
    /\ smSpec # <<>>
    /\ \E plot_specific \in BOOLEAN, first \in FirstKeys :
           \E res \in {ParseReq(Processed, smSpec, plot_specific, first)} :
               /\ smCall' = [op |-> "parse_req", plot_specific |-> plot_specific,
                             before |-> smSpec, res |-> res]
               /\ smSpec' = res.spec
    /\ UNCHANGED <<cvVars, dmVars, rnVars>>

\* parse_visual()
ParseVisualCall ==
    /\ smSpec # <<>>
    /\ smCall' = [op |-> "parse_visual", before |-> smSpec, res |-> ParseVisual(Processed, smSpec)]
    /\ UNCHANGED <<smSpec, cvVars, dmVars, rnVars>>

SmNext == ParseReqCall \/ ParseVisualCall

----------------------------------------------------------------------------
(* SpecManager: claims.                                                    *)

ReqCalled == smCall.op = "parse_req"

\* parse_req returned the per-report tables
ReqReturnedParts == ReqCalled /\ smCall.plot_specific /\ smCall.res.exc = ""

\* parse_req returned the global table
ReqReturnedFull == ReqCalled /\ ~smCall.plot_specific /\ smCall.res.exc = ""

\* parse_req raised a SpecificationError about the report
RejectedReport(e) == smCall.res.exc = "SpecificationError" /\ smCall.res.plot = e.name

\* the report gives plot.args, and plot.group if at all, as strings
KeysAreNames(e) ==
    /\ "plot.args" \in DOMAIN e.part.top
    /\ e.part.top["plot.args"].t = "str"
    /\ "plot.group" \in DOMAIN e.part.top => e.part.top["plot.group"].t = "str"

ArgKey(e) == e.part.top["plot.args"].str
HasGroupKey(e) == "plot.group" \in DOMAIN e.part.top
GroupKey(e) == e.part.top["plot.group"].str

\* the compound descriptor is one CompoundVar accepts
IsCompoundDescriptor(val) ==
    val.t = "compound" /\ ~ValidateInputRaises(val.cv.params, val.cv.operations)

\* C13: a report whose plot.args is a compound-expression descriptor is
\* accepted by requirement building, the expression's main being the swept
\* parameter: parse_req does not reject the report.
C13_CompoundArgsAccepted ==
    (/\ ReqCalled
     /\ "plot.args" \in DOMAIN smCall.before[1].part.top
     /\ IsCompoundDescriptor(smCall.before[1].part.top["plot.args"])
     /\ smCall.before[1].part.top["plot.args"].cv.params[1].name
            \in DOMAIN smCall.before[1].part.top)
    => ~RejectedReport(smCall.before[1])

\* parse_req was called on the report with the compound plot.args
C13_CompoundArgsParsed ==
    /\ ReqCalled
    /\ smCall.before = <<CompoundArgs>>
    /\ RejectedReport(CompoundArgs)

\* the rows one element of "groups" asks for: its argument values with its
\* group values and the fixed values of the report
GroupRows(e, group) ==
    LET fixed == {k \in DOMAIN e.part.top \ {ArgKey(e), GroupKey(e)} :
                     k \in MandatoryParamKeys \/ HasNetPrefix(k)}
        keyOf(c) == CHOOSE k \in fixed : DropParamPrefix(k) = c
    IN  { [c \in {DropParamPrefix(k) : k \in fixed \cup {ArgKey(e), GroupKey(e)}} |->
              IF c = DropParamPrefix(ArgKey(e)) THEN a
              ELSE IF c = DropParamPrefix(GroupKey(e)) THEN b
              ELSE Processed[e.part.top[keyOf(c)], FALSE, FALSE].items[1]] :
          a \in Range(Processed[group[ArgKey(e)], TRUE, FALSE].items),
          b \in Range(Processed[group[GroupKey(e)], TRUE, FALSE].items) }

\* how many times the row is in the table
Occurrences(table, row) == Cardinality({n \in DOMAIN table.rows : table.rows[n] = row})

C15_PartTablesHaveNoDuplicates ==
    ReqReturnedParts =>
        \A k \in DOMAIN smCall.res.parts :
            \A row \in Range(smCall.res.parts[k].table.rows) :
                Occurrences(smCall.res.parts[k].table, row) = 1

\* the table of the report with the overlapping group elements was returned
C15_OverlappingParsed ==
    /\ ReqReturnedParts
    /\ smCall.before[1] = GroupedOverlapping

\* the row over the columns: the cells of the row, NaN where it has none
OverColumns(row, cols) == [c \in Range(cols) |-> IF c \in DOMAIN row THEN row[c] ELSE JNaN]

\* the per-report tables of the file, as the plot specific mode returns them
PartTables(spec) == ParseReq(Processed, spec, TRUE, "model.q").parts

\* C16: the global table is the set union of the per-report tables after
\* compound resolution: every row of every report, no other row, and no
\* row twice.
C16_GlobalTableIsUnion ==
    ReqReturnedFull =>
        LET full == smCall.res.full
            parts == PartTables(smCall.before)
        IN  /\ Range(full.rows)
                   = UNION {{OverColumns(row, full.cols) : row \in Range(parts[k].table.rows)} :
                            k \in DOMAIN parts}
            /\ \A row \in Range(full.rows) : Occurrences(full, row) = 1

\* two reports ask for the same combination, and the global table was
\* returned
C16_SharedRowReturnedOnce ==
    /\ ReqReturnedFull
    /\ Len(smCall.before) = 2
    /\ LET parts == PartTables(smCall.before)
       IN  Range(parts[1].table.rows) \cap Range(parts[2].table.rows) # {}

\* the mandatory keys of the report that its argument and group keys do not
\* cover and that it does not give
MissingKeys(e) ==
    (MandatoryParamKeys \ ({ArgKey(e)} \cup (IF HasGroupKey(e) THEN {GroupKey(e)} ELSE {})))
        \ DOMAIN e.part.top

\* the report with the missing keys given
Completed(e) ==
    [e EXCEPT !.part.top = [k \in DOMAIN @ \cup MissingKeys(e) |->
                               IF k \in DOMAIN @ THEN @[k] ELSE Fixed[k]]]

\* _parse_req_part and _replace_compound_vals accept the report
Accepted(e) ==
    /\ ParseReqPart(Processed, e.part, "model.q").exc = ""
    /\ ReplaceCompoundVals(ParseReqPart(Processed, e.part, "model.q").table).exc = ""

\* the k-th report is the first one that lacks a mandatory key, the reports
\* before it are accepted, and the lack is its only defect
FirstLacksKey(spec, k) ==
    /\ KeysAreNames(spec[k])
    /\ MissingKeys(spec[k]) # {}
    /\ Accepted(Completed(spec[k]))
    /\ \A j \in 1..(k - 1) : Accepted(spec[j])

\* C17: when a report lacks a mandatory key that its argument and group key
\* do not cover, parse_req raises a SpecificationError naming the key and
\* the report, and returns no table, not even those of the valid reports.
C17_MissingKeyNamed ==
    ReqCalled =>
        \A k \in DOMAIN smCall.before :
            FirstLacksKey(smCall.before, k) =>
                /\ RejectedReport(smCall.before[k])
                /\ smCall.res.key \in MissingKeys(smCall.before[k])
                /\ smCall.res.parts = <<>>
                /\ smCall.res.full = EmptyTable

\* parse_req was called on a valid report followed by one without model.eps
C17_MissingAfterValid ==
    /\ ReqCalled
    /\ smCall.before = <<Sweep, MissingKey>>
    /\ smCall.res.key = "model.eps"
    /\ smCall.res.plot = MissingKey.name

\* the three misuses of the argument and group keys
SameArgAndGroup(e) == HasGroupKey(e) /\ ArgKey(e) = GroupKey(e)
GroupsWithoutGroupKey(e) == e.part.groups.present /\ ~HasGroupKey(e)
GroupsAndTopLevel(e) ==
    /\ e.part.groups.present
    /\ \/ ArgKey(e) \in DOMAIN e.part.top
       \/ HasGroupKey(e) /\ GroupKey(e) \in DOMAIN e.part.top

\* C18: a report in which the argument key equals the group key, or with a
\* "groups" section and no group key, or with a "groups" section and the
\* argument or group key at the top level, is rejected with a
\* SpecificationError.
C18_KeyMisuseRejected ==
    ReqCalled =>
        \A k \in DOMAIN smCall.before :
            (/\ \A j \in 1..(k - 1) : Accepted(smCall.before[j])
             /\ KeysAreNames(smCall.before[k])
             /\ \/ SameArgAndGroup(smCall.before[k])
                \/ GroupsWithoutGroupKey(smCall.before[k])
                \/ GroupsAndTopLevel(smCall.before[k]))
            => RejectedReport(smCall.before[k])

\* parse_req was called on a report with a "groups" section and the
\* argument key at the top level too
C18_TopLevelArgRejected ==
    /\ ReqCalled
    /\ smCall.before = <<Grouped, GroupsTopArg>>
    /\ RejectedReport(GroupsTopArg)

\* C20: a file with a report whose name is not alphanumeric is rejected
\* with a SpecificationError by parse_req as well as by parse_visual.
C20_BadNameRejectedEverywhere ==
    (/\ smCall.op \in {"parse_req", "parse_visual"}
     /\ \E k \in DOMAIN smCall.before : ~IsAlnum(smCall.before[k].name))
    => smCall.res.exc = "SpecificationError"

\* parse_req returned the table of the report named "a-b"
C20_BadNameParsed ==
    /\ ReqReturnedFull
    /\ smCall.before = <<SweepBadName>>
    /\ smCall.res.full.rows # <<>>

\* the report with the main of its compound plot.args as plot.args
WithMainAsArgs(e) ==
    [e EXCEPT !.part.top["plot.args"] = JStr(@.cv.params[1].name)]

\* transform_names as described: the function on the names only
NamesTransformed(cell) ==
    [cell EXCEPT !.cv.params =
        [k \in DOMAIN @ |-> IF IsStr(@[k]) THEN Name(DropParamPrefix(@[k].name)) ELSE @[k]]]

\* C24: transform_names applies the function to the name operands only and
\* leaves the numeric literals, the operators and the order as they are, so
\* parse_visual accepts a compound plot.args with a numeric literal and
\* returns it with the prefixes of its names dropped.
C24_TransformNamesKeepsLiterals ==
    (/\ smCall.op = "parse_visual"
     /\ Len(smCall.before) = 1
     /\ "plot.args" \in DOMAIN smCall.before[1].part.top
     /\ IsCompoundDescriptor(smCall.before[1].part.top["plot.args"])
     /\ IsStr(smCall.before[1].part.top["plot.args"].cv.params[1])
     /\ ParseVisual(Processed, <<WithMainAsArgs(smCall.before[1])>>).exc = "")
    => /\ smCall.res.exc = ""
       /\ smCall.res.parts[1].visual.args
              = NamesTransformed(Processed[smCall.before[1].part.top["plot.args"], FALSE, TRUE].items[1])

\* parse_visual was called on the report whose plot.args is model.q * 2
C24_LiteralOperandTransformed ==
    /\ smCall.op = "parse_visual"
    /\ smCall.before = <<CompoundArgs>>
    /\ smCall.res.exc = "AttributeError"

\* C28: parse_req does not modify the loaded specification, and a second
\* parse_req on the same SpecManager succeeds as the first one did and
\* returns equal tables, also for reports with a "groups" list.
C28_ParseReqRepeatable ==
    ReqCalled =>
        /\ smSpec = smCall.before
        /\ smCall.res.exc = "" =>
               \A first \in FirstKeys :
                   /\ ParseReq(Processed, smSpec, smCall.plot_specific, first).exc = ""
                   /\ ParseReq(Processed, smSpec, smCall.plot_specific, first).parts = smCall.res.parts
                   /\ ParseReq(Processed, smSpec, smCall.plot_specific, first).full = smCall.res.full

\* parse_req returned the tables of the report with the "groups" list, and
\* the elements of the list are empty afterwards
C28_GroupsEmptied ==
    /\ ReqCalled
    /\ smCall.before = <<Grouped>>
    /\ smCall.res.exc = ""
    /\ smSpec[1].part.groups.list = << <<>>, <<>> >>

----------------------------------------------------------------------------
(* SimulCollector: the order of the writes.                                *)

\* the step writes chunk t to the storage file
Persists(t) ==
    /\ t \in DOMAIN rnTasks'
    /\ rnTasks[t].status # "saved"
    /\ rnTasks'[t].status = "saved"

\* C19: chunks are persisted in ascending chunk-index order: when a chunk
\* is written to the store, no chunk of a higher index of the same run()
\* has been written before it.
C19_ChunksPersistedInOrder ==
    [][\A t \in DOMAIN rnTasks :
          Persists(t) => \A u \in DOMAIN rnTasks : u > t => rnTasks[u].status # "saved"]_vars

\* a chunk is in the store while a chunk of a lower index is still being
\* simulated
C19_LaterChunkWrittenFirst ==
    \E t, u \in DOMAIN rnTasks :
        /\ t < u
        /\ rnTasks[t].status = "taken"
        /\ rnTasks[u].status = "saved"

\* a row of a chunk has failed in this run()
SomeChunkFailed ==
    rnPc = "mapping" /\ \E t \in DOMAIN rnTasks : rnTasks[t].status = "failed"

\* C21: once a row of a chunk has failed during run(), no chunk is started
\* or persisted any more and the storage file stays as it was at the
\* failure, until run() raises.
C21_FailedIsTerminal ==
    [][SomeChunkFailed =>
          /\ rnFile' = rnFile
          /\ \A t \in DOMAIN rnTasks :
                rnTasks'[t].status # rnTasks[t].status => rnTasks'[t].status = "failed"]_vars

\* run() raised, and the file holds records that were not in it when the
\* chunks failed
C21_WrittenAfterFailure ==
    /\ rnPc = "raised"
    /\ ~(Range(rnLog.origins) \subseteq rnLog.kept)

\* a positive integer, in units of 10^-4
IsPositiveInteger(v) == v # NaN /\ v >= Unit /\ v % Unit = 0

\* a number of [0, 1]
IsProportion(v) == v # NaN /\ v >= 0 /\ v <= Unit

\* the row passes the validation as described: the run count, the network
\* size and q are positive integers, x and eps are in [0, 1], the network
\* kind is one of BA, WS, C, FB and the keys of the kind are given
ValidRow(raw) ==
    /\ IsPositiveInteger(raw["mc_runs"])
    /\ IsPositiveInteger(raw["size"])
    /\ IsPositiveInteger(raw["q"])
    /\ IsProportion(raw["x"])
    /\ IsProportion(raw["eps"])
    /\ raw["net_type"] \in NetKeys
    /\ raw["net_type"] \in {"BA", "WS"} => "k" \in DOMAIN raw /\ IsPositiveInteger(raw["k"])
    /\ raw["net_type"] = "WS" => "beta" \in DOMAIN raw /\ IsProportion(raw["beta"])

\* the step is a _run_one of process w in which the engine was called and
\* returned
EngineReturned(w) == rnWorkers'[w].pos = rnWorkers[w].pos + 1

\* the row of self.data that process w simulates next
NextRow(w) ==
    rnWorkers[w].data.rows[rnTasks[rnWorkers[w].task].chunk_indices[rnWorkers[w].pos + 1] + 1]

\* C26: the engine is called for a row only after the row passed the
\* validation: for a row that is not valid SimulationError is raised and
\* the engine is not called.
C26_EngineOnlyOnValidRows ==
    [][\A w \in Workers : EngineReturned(w) => ValidRow(NextRow(w))]_vars

\* the engine has returned the outcomes of the row with q = 2.7
C26_EngineCalledOnFractionalQ ==
    \E w \in Workers :
        /\ rnWorkers[w].pc = "running"
        /\ rnWorkers[w].pos >= 1
        /\ \E k \in DOMAIN rnData.rows :
              /\ rnData.rows[k].q = 27000
              /\ rnWorkers[w].data.rows[k].avg_exit_time = EngineResults.avg_exit_time

\* the file holds a record written in this run() for the k-th missing row
WrittenInThisRun(k) ==
    \E j \in DOMAIN rnLog.origins :
        /\ rnLog.origins[j].run = rnRun
        /\ rnLog.origins[j].row = ParamsOf(rnData).rows[k]

\* C27: when run() completes without error, the file holds a record for
\* every row of the missing-rows table, whatever the interleaving of the
\* pool processes.
C27_NoChunkLost ==
    rnPc = "done" => \A k \in DOMAIN rnData.rows : WrittenInThisRun(k)

\* run() completed without error, every chunk was written, and the file
\* holds fewer records than rows were simulated in this run()
C27_RecordsOverwritten ==
    /\ rnPc = "done"
    /\ rnRun = 1
    /\ rnTasks # <<>>
    /\ \A t \in DOMAIN rnTasks : rnTasks[t].status = "saved"
    /\ Len(rnFile.data.rows) < Len(rnData.rows)

\* the rows of its chunk that process w has simulated
Simulated(w) ==
    {rnTasks[rnWorkers[w].task].chunk_indices[j] + 1 : j \in 1..rnWorkers[w].pos}

\* the first run() is over without a failure and the file holds a record
\* for every row it simulated
FirstRunComplete ==
    /\ rnPc = "done"
    /\ rnRun = 1
    /\ \A k \in DOMAIN rnData.rows : WrittenInThisRun(k)

\* C30: the typing of a row does not change its parameter values: the
\* parameters a chunk holds for a simulated row are the values of the row
\* in the missing-rows table, and after a run without failure that lost no
\* chunk get_working_data on the same requirement table returns no row.
C30_TypingKeepsValues ==
    /\ \A w \in Workers :
          rnWorkers[w].pc \in {"running", "writing"} =>
              \A k \in Simulated(w) :
                  ParamsOf(rnWorkers[w].data).rows[k] = ParamsOf(rnData).rows[k]
    /\ FirstRunComplete => GetWorkingData(rnSpec.req, rnFile).rows = <<>>

\* the run on the row with q = 2.7 is over without a failure, and the row
\* is missing again
C30_FractionalQMissingAgain ==
    /\ FirstRunComplete
    /\ rnSpec.req.rows = <<RnQ27>>
    /\ rnFile.data.rows[1].q = 2 * Unit
    /\ GetWorkingData(rnSpec.req, rnFile).rows # <<>>

----------------------------------------------------------------------------
(* SimulCollector: the chunks.  The collector is built on a requirement    *)
(* table of n distinct rows and no storage file, and run() splits the      *)
(* missing rows into chunks.                                               *)

\* the largest number of missing rows and the largest chunk size
MaxMissingRows == 12
MaxSplitSize == 6

\* a requirement table of n distinct rows
ReqOfRows(n) == Table(BaseCols, [k \in 1..n |-> BaseRow(10 * k)])

ChunksInit ==
    /\ rnSpec \in [req : {ReqOfRows(n) : n \in 1..MaxMissingRows}, chunk_size : 1..MaxSplitSize]
    /\ rnFile = NoFile
    /\ rnRun = 1
    /\ rnPc = "start"
    /\ rnData = EmptyTable
    /\ rnTasks = <<>>
    /\ rnWorkers = [w \in Workers |-> IdleWorker]
    /\ rnLog = EmptyLog

ChunksNext == NewCollector \/ Run

\* run() has split the missing rows
ChunksBuilt == rnPc = "mapping"

\* the number of rows of chunk t
ChunkLen(t) == Len(rnTasks[t].chunk_indices)

\* C25: the missing rows are split into contiguous chunks of exactly
\* chunk_size rows, only the last one possibly smaller.
C25_ChunksOfConfiguredSize ==
    ChunksBuilt =>
        /\ \A t \in DOMAIN rnTasks : t < Len(rnTasks) => ChunkLen(t) = rnSpec.chunk_size
        /\ ChunkLen(Len(rnTasks)) \in 1..rnSpec.chunk_size

\* 11 missing rows with chunk_size 5
C25_ElevenByFive ==
    /\ ChunksBuilt
    /\ Len(rnData.rows) = 11
    /\ rnSpec.chunk_size = 5
    /\ [t \in DOMAIN rnTasks |-> ChunkLen(t)] = <<4, 4, 3>>

\* C29: for every number n >= 1 of missing rows and every chunk size
\* c >= 1 the chunks are non-empty, contiguous, pairwise disjoint, cover
\* every row index 0..n-1 exactly once and none has more than c rows: every
\* missing row is in exactly one chunk, the one that simulates and
\* persists it.
C29_ChunksPartitionRows ==
    ChunksBuilt =>
        LET n == Len(rnData.rows)
            chunk(t) == rnTasks[t].chunk_indices
        IN  /\ rnTasks # <<>>
            /\ \A t \in DOMAIN rnTasks :
                  /\ chunk(t) # <<>>
                  /\ Len(chunk(t)) <= rnSpec.chunk_size
                  /\ \A j \in 1..(Len(chunk(t)) - 1) : chunk(t)[j + 1] = chunk(t)[j] + 1
                  /\ t > 1 => chunk(t)[1] = chunk(t - 1)[Len(chunk(t - 1))] + 1
            /\ chunk(1)[1] = 0
            /\ chunk(Len(rnTasks))[ChunkLen(Len(rnTasks))] = n - 1
            /\ \A ix \in 0..(n - 1) :
                  Cardinality({<<t, j>> \in (DOMAIN rnTasks) \X (1..n) :
                                  j <= Len(chunk(t)) /\ chunk(t)[j] = ix}) = 1

\* more rows than a chunk holds, and not a multiple of the chunk size
C29_UnevenSplit ==
    /\ ChunksBuilt
    /\ Len(rnData.rows) = 7
    /\ rnSpec.chunk_size = 3
    /\ Len(rnTasks) = 3

----------------------------------------------------------------------------
(* The specifications: each runs one of the state machines and leaves the  *)
(* variables of the others as they start.                                  *)

\* the SimulCollector machine at rest
RnIdle ==
    /\ rnSpec = [req |-> EmptyTable, chunk_size |-> 1]
    /\ rnFile = NoFile
    /\ rnRun = 0
    /\ rnPc = "start"
    /\ rnData = EmptyTable
    /\ rnTasks = <<>>
    /\ rnWorkers = <<>>
    /\ rnLog = <<>>

\* the SpecManager machine at rest
SmIdle ==
    /\ smSpec = <<>>
    /\ smCall = [op |-> "none"]

Init == CvInit /\ DmInit /\ RnIdle /\ SmIdle

SpecCompound == Init /\ [][CvNext]_vars

SpecStore == Init /\ [][DmNext]_vars

InitRun == CvInit /\ DmInit /\ RnInit /\ SmIdle

Spec == InitRun /\ [][RnNext]_vars

InitValue == CvInit /\ DmInit /\ RnIdle /\ PvArgs
SpecValue == InitValue /\ [][PvNext]_vars

InitParse == CvInit /\ DmInit /\ RnIdle /\ SmInit
SpecParse == InitParse /\ [][SmNext]_vars

InitChunks == CvInit /\ DmInit /\ ChunksInit /\ SmIdle
SpecChunks == InitChunks /\ [][ChunksNext]_vars

====
